---------------------------- MODULE Spec2Model ----------------------------
(***************************************************************************)
(* Verification model of onepass-audioclean-seg: the interval algebra of   *)
(* pipeline/segments_from_silence.py, the per-job segment run of           *)
(* pipeline/planner.py (analyze, emit-segments, auto-strategy), the        *)
(* report and segments writers of io/, and the validator of validate.py.   *)
(*                                                                         *)
(* Time.  Every time value of the program is a float that is rounded to    *)
(* three decimals at each operation boundary.  The model counts time in    *)
(* milliseconds: the value t stands for the float round(t / 1000, 3), and  *)
(* round(x, 3) of such a value is the value itself.  The only place where  *)
(* a value is not a whole number of milliseconds is the equal split, and   *)
(* there round(_, 3) is modelled by RoundDiv.                              *)
(*                                                                         *)
(* Floating point.  The code compares DIFFERENCES of two floats with a     *)
(* threshold (gap <= 0.001, duration >= min_seg_sec, duration <=           *)
(* max_seg_sec).  The float difference of two round-3 values is exact only *)
(* up to one ulp: 1.001 - 1.0 <= 0.001 is True but 0.101 - 0.1 <= 0.001 is *)
(* False.  Which way a comparison at exactly the threshold goes depends on *)
(* the operands, so the model takes the sign of the rounding error as an   *)
(* input err \in FpErr of the operation and explores all of them.          *)
(***************************************************************************)
EXTENDS Integers, Sequences, FiniteSets, TLC

(***************************************************************************)
(* Bounds of the model (not program constants).                            *)
(***************************************************************************)
MaxDur == 6
MaxRaw == 2

FpErr == {-1, 0, 1}

Max2(a, b) == IF a >= b THEN a ELSE b
Min2(a, b) == IF a <= b THEN a ELSE b

\* float comparison "d <= bound" / "d >= bound" of a computed difference d
FpLE(d, bound, err) == 2 * d + err <= 2 * bound
FpGE(d, bound, err) == 2 * d + err >= 2 * bound

\* round(num / den, 3) in milliseconds: nearest integer, ties to even
RoundDiv(num, den) ==
    LET q == num \div den
        r == num % den
    IN  IF 2 * r < den THEN q
        ELSE IF 2 * r > den THEN q + 1
        ELSE IF q % 2 = 0 THEN q ELSE q + 1

Last(seq) == seq[Len(seq)]
ReplaceLast(seq, x) == [seq EXCEPT ![Len(seq)] = x]

RECURSIVE SumDur(_)
SumDur(segs) ==
    IF segs = <<>> THEN 0 ELSE (Head(segs)[2] - Head(segs)[1]) + SumDur(Tail(segs))

(***************************************************************************)
(* sorted(segments, key=lambda x: x[0]): a stable sort by start.           *)
(***************************************************************************)
RECURSIVE InsertByStart(_, _)
InsertByStart(sorted, x) ==
    IF sorted = <<>> THEN <<x>>
    ELSE IF Last(sorted)[1] <= x[1] THEN Append(sorted, x)
    ELSE Append(InsertByStart(SubSeq(sorted, 1, Len(sorted) - 1), x), Last(sorted))

RECURSIVE SortByStart(_)
SortByStart(segs) ==
    IF segs = <<>> THEN <<>>
    ELSE InsertByStart(SortByStart(SubSeq(segs, 1, Len(segs) - 1)), Last(segs))

(***************************************************************************)
(* apply_padding_and_clip                                                  *)
(***************************************************************************)
RECURSIVE PadEach(_, _, _)
PadEach(segs, pad_sec, duration_sec) ==
    IF segs = <<>> THEN <<>>
    ELSE LET new_start == Max2(0, Head(segs)[1] - pad_sec)
             new_end   == Min2(duration_sec, Head(segs)[2] + pad_sec)
             rest      == PadEach(Tail(segs), pad_sec, duration_sec)
         IN  IF new_end > new_start THEN <<(<<new_start, new_end>>)>> \o rest ELSE rest

apply_padding_and_clip(segs, pad_sec, duration_sec) ==
    SortByStart(PadEach(segs, pad_sec, duration_sec))

(***************************************************************************)
(* merge_overlaps                                                          *)
(***************************************************************************)
RECURSIVE MergeFold(_, _, _, _)
MergeFold(rest, merged, lim, err) ==
    IF rest = <<>> THEN merged
    ELSE LET x == Head(rest) IN
         IF merged = <<>> THEN MergeFold(Tail(rest), <<x>>, lim, err)
         ELSE LET last == Last(merged)
                  gap  == x[1] - last[2]
              IN  IF FpLE(gap, lim, err)
                  THEN MergeFold(Tail(rest),
                                 ReplaceLast(merged, <<Min2(last[1], x[1]), Max2(last[2], x[2])>>),
                                 lim, err)
                  ELSE MergeFold(Tail(rest), Append(merged, x), lim, err)

\* merge_overlaps with the merge branch lost: the list is only sorted
merge_overlaps_sort_only(segs, gap_merge_sec, overlap_tolerance, err) ==
    SortByStart(segs)

merge_overlaps(segs, gap_merge_sec, overlap_tolerance, err) ==
    MergeFold(SortByStart(segs), <<>>, Max2(overlap_tolerance, gap_merge_sec), err)

(***************************************************************************)
(* enforce_min_duration_by_merge: one pass of the inner while loop, then   *)
(* the outer "while changed" loop.                                         *)
(***************************************************************************)
\* a pass that keeps a short segment without neighbour instead of dropping it
RECURSIVE MinPass_keeps_isolated(_, _, _, _, _, _)
MinPass_keeps_isolated(result, i, new_result, changed, min_seg_sec, err) ==
    IF i > Len(result) THEN [res |-> new_result, changed |-> changed]
    ELSE
      LET start == result[i][1]
          end   == result[i][2]
          hasLeft  == new_result # <<>>
          hasRight == i + 1 <= Len(result)
      IN
      IF FpGE(end - start, min_seg_sec, err) \/ (~hasLeft /\ ~hasRight)
      THEN MinPass_keeps_isolated(result, i + 1, Append(new_result, <<start, end>>),
                                  changed, min_seg_sec, err)
      ELSE IF hasLeft /\ (~hasRight
                          \/ start - Last(new_result)[2] < result[i + 1][1] - end
                          \/ (/\ start - Last(new_result)[2] = result[i + 1][1] - end
                              /\ start - Last(new_result)[2] > 0 /\ err < 0))
      THEN MinPass_keeps_isolated(result, i + 1,
                       ReplaceLast(new_result,
                                   <<Last(new_result)[1], Max2(Last(new_result)[2], end)>>),
                       TRUE, min_seg_sec, err)
      ELSE MinPass_keeps_isolated(result, i + 2,
                       Append(new_result,
                              <<Min2(start, result[i + 1][1]), Max2(end, result[i + 1][2])>>),
                       TRUE, min_seg_sec, err)

\* a pass that drops every short segment instead of merging it
RECURSIVE MinPass_drops_short(_, _, _, _, _, _)
MinPass_drops_short(result, i, new_result, changed, min_seg_sec, err) ==
    IF i > Len(result) THEN [res |-> new_result, changed |-> changed]
    ELSE IF FpGE(result[i][2] - result[i][1], min_seg_sec, err)
    THEN MinPass_drops_short(result, i + 1, Append(new_result, result[i]),
                             changed, min_seg_sec, err)
    ELSE MinPass_drops_short(result, i + 1, new_result, changed, min_seg_sec, err)

RECURSIVE MinPass(_, _, _, _, _, _)
MinPass(result, i, new_result, changed, min_seg_sec, err) ==
    IF i > Len(result) THEN [res |-> new_result, changed |-> changed]
    ELSE
      LET start == result[i][1]
          end   == result[i][2]
          hasLeft  == new_result # <<>>
          hasRight == i + 1 <= Len(result)
      IN
      IF FpGE(end - start, min_seg_sec, err)
      THEN MinPass(result, i + 1, Append(new_result, <<start, end>>), changed, min_seg_sec, err)
      ELSE IF ~hasLeft /\ ~hasRight
      THEN \* isolated short segment: dropped, "changed" is not set
           MinPass(result, i + 1, new_result, changed, min_seg_sec, err)
      ELSE
        \* left_gap < right_gap is a comparison of two float differences:
        \* gaps that are equal in milliseconds and not 0 compare either way
        LET left_gap  == start - Last(new_result)[2]
            right_gap == result[i + 1][1] - end
            merge_left ==
              IF hasLeft /\ hasRight
              THEN left_gap < right_gap \/ (left_gap = right_gap /\ left_gap > 0 /\ err < 0)
              ELSE hasLeft
        IN  IF merge_left
            THEN MinPass(result, i + 1,
                         ReplaceLast(new_result,
                                     <<Last(new_result)[1], Max2(Last(new_result)[2], end)>>),
                         TRUE, min_seg_sec, err)
            ELSE MinPass(result, i + 2,
                         Append(new_result,
                                <<Min2(start, result[i + 1][1]), Max2(end, result[i + 1][2])>>),
                         TRUE, min_seg_sec, err)

RECURSIVE MinLoop(_, _, _)
MinLoop(result, min_seg_sec, err) ==
    LET p == MinPass(result, 1, <<>>, FALSE, min_seg_sec, err)
    IN  IF p.changed THEN MinLoop(p.res, min_seg_sec, err) ELSE p.res

enforce_min_duration_by_merge(segs, min_seg_sec, err) ==
    IF segs = <<>> THEN <<>> ELSE MinLoop(SortByStart(segs), min_seg_sec, err)

(***************************************************************************)
(* enforce_max_duration_by_split, strategy "equal".                        *)
(* k = int((duration + max_seg_sec - 1e-6) // max_seg_sec) + 1; with       *)
(* durations in whole milliseconds the floor is (d + max - 1) \div max.    *)
(***************************************************************************)
SplitCount(duration, max_seg_sec) == ((duration + max_seg_sec - 1) \div max_seg_sec) + 1

RECURSIVE SplitPieces(_, _, _, _)
SplitPieces(start, end, k, i) ==
    IF i >= k THEN <<>>
    ELSE LET seg_start == RoundDiv(start * k + i * (end - start), k)
             seg_end   == IF i = k - 1 THEN end
                          ELSE RoundDiv(start * k + (i + 1) * (end - start), k)
             \* seg_end > seg_start is tested on the unrounded floats
             nonEmpty  == end > start
         IN  (IF nonEmpty THEN <<(<<seg_start, seg_end>>)>> ELSE <<>>)
             \o SplitPieces(start, end, k, i + 1)

RECURSIVE SplitEach(_, _, _)
SplitEach(segs, max_seg_sec, err) ==
    IF segs = <<>> THEN <<>>
    ELSE LET start == Head(segs)[1]
             end   == Head(segs)[2]
         IN  (IF FpLE(end - start, max_seg_sec, err)
              THEN <<(<<start, end>>)>>
              ELSE SplitPieces(start, end, SplitCount(end - start, max_seg_sec), 0))
             \o SplitEach(Tail(segs), max_seg_sec, err)

enforce_max_duration_by_split(segs, max_seg_sec, min_seg_sec, err) ==
    IF segs = <<>> THEN <<>>
    ELSE enforce_min_duration_by_merge(
             merge_overlaps(SplitEach(segs, max_seg_sec, err), 0, 1, err),
             min_seg_sec, err)

(***************************************************************************)
(* SegmentPlanner._postprocess_segments, the chain that _run_emit_segments *)
(* and _run_auto_strategy_emit_segments repeat inline.                     *)
(***************************************************************************)
postprocess_segments(speech_segments_raw, duration_sec, pad_sec, min_seg_sec, max_seg_sec, err) ==
    LET padded_segments == apply_padding_and_clip(speech_segments_raw, pad_sec, duration_sec)
        merged_segments == merge_overlaps(padded_segments, 0, 1, err)
        min_segments    == enforce_min_duration_by_merge(merged_segments, min_seg_sec, err)
        final_segments  == enforce_max_duration_by_split(min_segments, max_seg_sec, min_seg_sec, err)
    IN  SortByStart(final_segments)


(***************************************************************************)
(* normalize_intervals and complement_to_speech_segments.  A silence       *)
(* interval is the pair <<start_sec, end_sec>>; its duration_sec is        *)
(* recomputed as end - start by the clip step of normalize_intervals.      *)
(***************************************************************************)
RECURSIVE ClipEach(_, _)
ClipEach(merged, duration_sec) ==
    IF merged = <<>> THEN <<>>
    ELSE LET start_sec == Min2(Max2(0, Head(merged)[1]), duration_sec)
             end_sec   == Min2(Head(merged)[2], duration_sec)
             rest      == ClipEach(Tail(merged), duration_sec)
         IN  IF end_sec <= start_sec THEN rest ELSE <<(<<start_sec, end_sec>>)>> \o rest

normalize_intervals(silences, duration_sec, err) ==
    IF silences = <<>> THEN <<>>
    ELSE ClipEach(MergeFold(SortByStart(silences), <<>>, 1, err), duration_sec)

RECURSIVE ComplementGaps(_, _)
ComplementGaps(silences, i) ==
    IF i >= Len(silences) THEN <<>>
    ELSE (IF silences[i + 1][1] - silences[i][2] > 0
          THEN <<(<<silences[i][2], silences[i + 1][1]>>)>> ELSE <<>>)
         \o ComplementGaps(silences, i + 1)

\* the complement without the part after the last silence
complement_without_suffix(silences, duration_sec) ==
    IF silences = <<>>
    THEN (IF duration_sec > 0 THEN <<(<<0, duration_sec>>)>> ELSE <<>>)
    ELSE (IF silences[1][1] > 0 THEN <<(<<0, silences[1][1]>>)>> ELSE <<>>)
         \o ComplementGaps(silences, 1)

complement_to_speech_segments(silences, duration_sec) ==
    IF silences = <<>>
    THEN (IF duration_sec > 0 THEN <<(<<0, duration_sec>>)>> ELSE <<>>)
    ELSE (IF silences[1][1] > 0 THEN <<(<<0, silences[1][1]>>)>> ELSE <<>>)
         \o ComplementGaps(silences, 1)
         \o (IF Last(silences)[2] < duration_sec
             THEN <<(<<Last(silences)[2], duration_sec>>)>> ELSE <<>>)

(***************************************************************************)
(* Segment ids.  seg_id = f"seg_{idx:06d}": the prefix and the decimal     *)
(* digits of idx, left-padded with zeros to width 6 (wider when idx needs  *)
(* more digits).  The validator's pattern ^seg_(\d{6})$ accepts exactly    *)
(* six digits and reads them back with int(); its $ also matches before a  *)
(* newline that ends the string.  An id is the prefix, the digits and the  *)
(* rest of the string (tail).                                              *)
(***************************************************************************)
SegIdWidth == 6

RECURSIVE Digits(_)
Digits(n) == IF n < 10 THEN <<n>> ELSE Append(Digits(n \div 10), n % 10)

RECURSIVE ZeroPad(_, _)
ZeroPad(ds, width) == IF Len(ds) >= width THEN ds ELSE ZeroPad(<<0>> \o ds, width)

\* the ids counted from 0, as enumerate() without start = 1 gives them
FormatSegId_from_zero(idx) ==
    [prefix |-> "seg_", digits |-> ZeroPad(Digits(idx - 1), SegIdWidth), tail |-> ""]

FormatSegId(idx) ==
    [prefix |-> "seg_", digits |-> ZeroPad(Digits(idx), SegIdWidth), tail |-> ""]

RECURSIVE DigitsValue(_)
DigitsValue(ds) ==
    IF ds = <<>> THEN 0 ELSE 10 * DigitsValue(SubSeq(ds, 1, Len(ds) - 1)) + Last(ds)

\* re.match(r"^seg_(\d{6})$", seg_id) and int(match.group(1)); -1 when no match
ParseSegId(seg_id) ==
    IF seg_id.prefix = "seg_" /\ Len(seg_id.digits) = SegIdWidth /\ seg_id.tail \in {"", "\n"}
    THEN DigitsValue(seg_id.digits) ELSE -1

(***************************************************************************)
(* SegmentRecord.  The dataclass of io/segments.py declares twelve fields; *)
(* the planner constructs it with fifteen keyword arguments.  A dataclass  *)
(* __init__ raises TypeError on a keyword it does not declare.             *)
(***************************************************************************)
DeclaredRecordFields ==
    {"id", "start_sec", "end_sec", "duration_sec", "source_audio", "pre_silence_sec",
     "post_silence_sec", "is_speech", "strategy", "rms", "energy_db", "notes"}

\* the record of the specification: the declared fields and flags, source, quality
SpecRecordFields == DeclaredRecordFields \cup {"flags", "source", "quality"}

ConstructedRecordFields ==
    {"id", "start_sec", "end_sec", "duration_sec", "source_audio", "pre_silence_sec",
     "post_silence_sec", "is_speech", "strategy", "rms", "energy_db", "notes",
     "flags", "source", "quality"}

SegmentRecordInitOk(fields) == ConstructedRecordFields \subseteq fields

Abs(x) == IF x >= 0 THEN x ELSE -x

\* the first silence whose end (for pre) or start (for post) is within 0.001 of t
RECURSIVE SilenceAt(_, _, _, _)
SilenceAt(nonspeech, t, side, err) ==
    IF nonspeech = <<>> THEN 0
    ELSE IF FpLE(Abs(Head(nonspeech)[side] - t), 1, err)
         THEN Head(nonspeech)[2] - Head(nonspeech)[1]
         ELSE SilenceAt(Tail(nonspeech), t, side, err)

RECURSIVE BuildRecords(_, _, _, _, _)
BuildRecords(final_segments, idx, strategy_name, nonspeech_segments_raw, err) ==
    IF idx > Len(final_segments) THEN <<>>
    ELSE LET start == final_segments[idx][1]
             end   == final_segments[idx][2]
             silence == strategy_name = "silence" /\ nonspeech_segments_raw # <<>>
         IN  <<[id |-> FormatSegId(idx),
                start_sec |-> start,
                end_sec |-> end,
                duration_sec |-> end - start,
                pre_silence_sec |->
                    IF silence THEN SilenceAt(nonspeech_segments_raw, start, 2, err) ELSE 0,
                post_silence_sec |->
                    IF silence THEN SilenceAt(nonspeech_segments_raw, end, 1, err) ELSE 0,
                strategy |-> strategy_name]>>
             \o BuildRecords(final_segments, idx + 1, strategy_name, nonspeech_segments_raw, err)

(***************************************************************************)
(* The files of one job's output directory.                                *)
(*   segments_jsonl : the records, one per line                            *)
(*   seg_report     : the top-level keys of the JSON object, and the       *)
(*                    values of "segments", "analysis", "auto_strategy"    *)
(*   silences_json  : duration_sec and the normalized silences             *)
(*   energy_json, vad_json : whether the artifact exists                   *)
(***************************************************************************)
NoSegments == [exists |-> FALSE, records |-> <<>>]
NoSilences == [exists |-> FALSE, duration_sec |-> 0, silences |-> <<>>]
SegmentsList == [kind |-> "list", count |-> 0, speech_total_sec |-> 0, strategy |-> "none"]
NoAutoStrategy == [enabled |-> FALSE, order |-> <<>>, chosen |-> "none", attempts |-> <<>>]
NoReport == [exists |-> FALSE, keys |-> {}, segments |-> SegmentsList, analysis |-> {},
             auto_strategy |-> NoAutoStrategy]
EmptyDir == [segments_jsonl |-> NoSegments, seg_report |-> NoReport,
             silences_json |-> NoSilences, energy_json |-> FALSE, vad_json |-> FALSE]

write_seg_report(d) ==
    [d EXCEPT !.seg_report =
        [exists |-> TRUE,
         keys |-> {"version", "created_at", "tool", "planned", "params", "audio_path",
                   "meta_path", "segments"},
         segments |-> SegmentsList, analysis |-> {}, auto_strategy |-> NoAutoStrategy]]

\* plan_and_execute has written the report before any update_* runs, so
\* read_seg_report finds it
update_seg_report_analysis(d, strategy_name) ==
    [d EXCEPT !.seg_report.keys = @ \cup {"tool", "analysis", "updated_at"},
              !.seg_report.analysis = @ \cup {strategy_name}]

update_seg_report_segments(d, segments_data) ==
    [d EXCEPT !.seg_report.keys = @ \cup {"tool", "segments", "updated_at"},
              !.seg_report.segments = segments_data]

\* the report left as it is: the attempts are not recorded
update_seg_report_auto_strategy_skipped(d, auto_strategy_data) == d

update_seg_report_auto_strategy(d, auto_strategy_data) ==
    [d EXCEPT !.seg_report.keys = @ \cup {"auto_strategy"},
              !.seg_report.auto_strategy = auto_strategy_data]

write_segments_jsonl(d, segments_records) ==
    [d EXCEPT !.segments_jsonl = [exists |-> TRUE, records |-> segments_records]]

(***************************************************************************)
(* SegmentStrategy.analyze.  The audio, the external tools and libraries   *)
(* are the environment w of the run:                                       *)
(*   w.ffmpeg, w.webrtcvad : whether the dependency is available           *)
(*   w.silence  : what parse_silencedetect_output returns for the audio,   *)
(*   w.energy, w.vad : the detector's speech_segments_raw,                 *)
(*                each with fail = TRUE when the detector raises           *)
(*   w.duration_sec, w.err                                                 *)
(* The result is an AnalysisResult, or the exception that analyze raised.  *)
(***************************************************************************)
Strategies == {"silence", "energy", "vad"}

Raised(exception) ==
    [exc |-> exception, duration_sec |-> 0, speech_segments_raw |-> <<>>,
     nonspeech_segments_raw |-> <<>>]

AnalysisResult(duration_sec, speech_segments_raw, nonspeech_segments_raw) ==
    [exc |-> "none", duration_sec |-> duration_sec,
     speech_segments_raw |-> speech_segments_raw,
     nonspeech_segments_raw |-> nonspeech_segments_raw]

SilenceStrategy_analyze(w) ==
    IF ~w.ffmpeg THEN Raised("RuntimeError")
    ELSE IF w.silence.fail THEN Raised("RuntimeError")
    ELSE LET normalized_silences == normalize_intervals(w.silence.list, w.duration_sec, w.err)
         IN  AnalysisResult(w.duration_sec,
                            complement_to_speech_segments(normalized_silences, w.duration_sec),
                            normalized_silences)

EnergyStrategy_analyze(w) ==
    IF w.energy.fail THEN Raised("RuntimeError")
    ELSE AnalysisResult(w.duration_sec, w.energy.list, <<>>)

VadStrategy_analyze(w) ==
    IF ~w.webrtcvad THEN Raised("ImportError")
    ELSE IF w.vad.fail THEN Raised("RuntimeError")
    ELSE AnalysisResult(w.duration_sec, w.vad.list, <<>>)

Analyze(strategy_name, w) ==
    IF strategy_name = "silence" THEN SilenceStrategy_analyze(w)
    ELSE IF strategy_name = "energy" THEN EnergyStrategy_analyze(w)
    ELSE VadStrategy_analyze(w)

\* write_artifact at the end of a successful analyze
write_artifact(d, strategy_name, result) ==
    IF strategy_name = "silence"
    THEN [d EXCEPT !.silences_json = [exists |-> TRUE, duration_sec |-> result.duration_sec,
                                      silences |-> result.nonspeech_segments_raw]]
    ELSE IF strategy_name = "energy" THEN [d EXCEPT !.energy_json = TRUE]
    ELSE [d EXCEPT !.vad_json = TRUE]

(***************************************************************************)
(* SegmentPlanner._run_analyze                                             *)
(***************************************************************************)
run_analyze(d, args, w) ==
    LET result == Analyze(args.strategy, w)
    IN  IF result.exc # "none" THEN [d |-> d, ok |-> FALSE]
        ELSE [d |-> update_seg_report_analysis(write_artifact(d, args.strategy, result),
                                               args.strategy),
              ok |-> TRUE]

(***************************************************************************)
(* The tail shared by _run_emit_segments and the chosen branch of          *)
(* _run_auto_strategy_emit_segments: the chain, the records, the write of  *)
(* segments.jsonl and the report's "segments".  The loop body constructs   *)
(* a SegmentRecord for each final segment; when the constructor raises,    *)
(* the except clause of the caller returns False and nothing is written.   *)
(***************************************************************************)
EmitRecords(d, strategy_name, result, args, params, w, fields) ==
    LET final_segments ==
            postprocess_segments(result.speech_segments_raw, result.duration_sec,
                                 params.pad_sec, params.min_seg_sec, params.max_seg_sec, w.err)
        segments_records ==
            BuildRecords(final_segments, 1, strategy_name, result.nonspeech_segments_raw, w.err)
    IN  IF final_segments # <<>> /\ ~SegmentRecordInitOk(fields)
        THEN [d |-> d, ok |-> FALSE, wrote |-> FALSE]
        ELSE [d |-> update_seg_report_segments(
                        write_segments_jsonl(d, segments_records),
                        [kind |-> "dict", count |-> Len(segments_records),
                         speech_total_sec |-> SumDur(final_segments),
                         strategy |-> strategy_name]),
              ok |-> TRUE, wrote |-> TRUE]

(***************************************************************************)
(* SegmentPlanner._run_emit_segments, single strategy.  An existing        *)
(* silences.json is read back instead of running the detector; the         *)
(* AnalysisResult rebuilt from it carries no nonspeech_segments_raw.       *)
(***************************************************************************)
run_emit_single(d, args, params, w, fields) ==
    LET reuse == /\ args.strategy = "silence"
                 /\ d.silences_json.exists
                 /\ d.silences_json.duration_sec # 0
        result ==
            IF reuse
            THEN LET normalized_silences ==
                         normalize_intervals(d.silences_json.silences,
                                             d.silences_json.duration_sec, w.err)
                 IN  AnalysisResult(d.silences_json.duration_sec,
                                    complement_to_speech_segments(
                                        normalized_silences, d.silences_json.duration_sec),
                                    <<>>)
            ELSE Analyze(args.strategy, w)
    IN  IF result.exc # "none" THEN [d |-> d, ok |-> FALSE, wrote |-> FALSE]
        ELSE EmitRecords(IF reuse THEN d ELSE write_artifact(d, args.strategy, result),
                         args.strategy, result, args, params, w, fields)

(***************************************************************************)
(* The quality gate of the auto-strategy loop; max_speech_ratio is a       *)
(* percentage.  The result is the reason of the failure, "none" on a pass. *)
(***************************************************************************)
DEFAULT_AUTO_STRATEGY_MAX_SPEECH_RATIO == 90

\* the gate without the condition on the total duration of speech
QualityGate_without_min_speech(final_segments, duration_sec, params) ==
    LET speech_total_sec == SumDur(final_segments)
        segments_count   == Len(final_segments)
    IN  IF segments_count < params.auto_strategy_min_segments THEN "too_few_segments"
        ELSE IF /\ duration_sec > 0
                /\ 100 * speech_total_sec >= DEFAULT_AUTO_STRATEGY_MAX_SPEECH_RATIO * duration_sec
        THEN "full_span"
        ELSE "none"

QualityGate(final_segments, duration_sec, params) ==
    LET speech_total_sec == SumDur(final_segments)
        segments_count   == Len(final_segments)
    IN  IF segments_count < params.auto_strategy_min_segments THEN "too_few_segments"
        ELSE IF speech_total_sec < params.auto_strategy_min_speech_total_sec
        THEN "too_short_speech"
        ELSE IF /\ duration_sec > 0
                /\ 100 * speech_total_sec >= DEFAULT_AUTO_STRATEGY_MAX_SPEECH_RATIO * duration_sec
        THEN "full_span"
        ELSE "none"

(***************************************************************************)
(* _run_auto_strategy_emit_segments: the loop over strategy_order.  Every  *)
(* candidate runs its detector (which writes its artifact when it          *)
(* succeeds); the loop breaks at the first candidate that passes the gate. *)
(***************************************************************************)
\* the loop ended by the first exception other than ImportError, as if the
\* except clause enclosed the for statement
RECURSIVE AutoLoop_raise_ends_loop(_, _, _, _, _, _, _)
AutoLoop_raise_ends_loop(strategy_order, i, attempts, d, args, params, w) ==
    IF i > Len(strategy_order)
    THEN [attempts |-> attempts, chosen_strategy |-> "none",
          chosen_result |-> Raised("none"), d |-> d]
    ELSE
      LET strategy_name == strategy_order[i]
          result == Analyze(strategy_name, w)
      IN
      IF result.exc = "ImportError"
      THEN AutoLoop_raise_ends_loop(strategy_order, i + 1,
                    Append(attempts, [strategy |-> strategy_name, ok |-> FALSE,
                                      reason |-> "missing_dependency"]),
                    d, args, params, w)
      ELSE IF result.exc # "none"
      THEN [attempts |-> Append(attempts, [strategy |-> strategy_name, ok |-> FALSE,
                                           reason |-> "error"]),
            chosen_strategy |-> "none", chosen_result |-> Raised("none"), d |-> d]
      ELSE
        LET d1 == write_artifact(d, strategy_name, result)
            final_segments ==
                postprocess_segments(result.speech_segments_raw, result.duration_sec,
                                     params.pad_sec, params.min_seg_sec, params.max_seg_sec,
                                     w.err)
            reason == QualityGate(final_segments, result.duration_sec, params)
        IN  IF reason = "none"
            THEN [attempts |-> Append(attempts, [strategy |-> strategy_name, ok |-> TRUE,
                                                 reason |-> "none"]),
                  chosen_strategy |-> strategy_name, chosen_result |-> result, d |-> d1]
            ELSE AutoLoop_raise_ends_loop(strategy_order, i + 1,
                          Append(attempts, [strategy |-> strategy_name, ok |-> FALSE,
                                            reason |-> reason]),
                          d1, args, params, w)

RECURSIVE AutoLoop(_, _, _, _, _, _, _)
AutoLoop(strategy_order, i, attempts, d, args, params, w) ==
    IF i > Len(strategy_order)
    THEN [attempts |-> attempts, chosen_strategy |-> "none",
          chosen_result |-> Raised("none"), d |-> d]
    ELSE
      LET strategy_name == strategy_order[i]
          result == Analyze(strategy_name, w)
      IN
      IF result.exc = "ImportError"
      THEN AutoLoop(strategy_order, i + 1,
                    Append(attempts, [strategy |-> strategy_name, ok |-> FALSE,
                                      reason |-> "missing_dependency"]),
                    d, args, params, w)
      ELSE IF result.exc # "none"
      THEN AutoLoop(strategy_order, i + 1,
                    Append(attempts, [strategy |-> strategy_name, ok |-> FALSE,
                                      reason |-> "error"]),
                    d, args, params, w)
      ELSE
        LET d1 == write_artifact(d, strategy_name, result)
            final_segments ==
                postprocess_segments(result.speech_segments_raw, result.duration_sec,
                                     params.pad_sec, params.min_seg_sec, params.max_seg_sec,
                                     w.err)
            reason == QualityGate(final_segments, result.duration_sec, params)
        IN  IF reason = "none"
            THEN [attempts |-> Append(attempts, [strategy |-> strategy_name, ok |-> TRUE,
                                                 reason |-> "none"]),
                  chosen_strategy |-> strategy_name, chosen_result |-> result, d |-> d1]
            ELSE AutoLoop(strategy_order, i + 1,
                          Append(attempts, [strategy |-> strategy_name, ok |-> FALSE,
                                            reason |-> reason]),
                          d1, args, params, w)

\* after the loop: the report's auto_strategy when no candidate was chosen,
\* else the records of the chosen candidate and then the report
auto_strategy_finish(loop, e, args) ==
    IF loop.chosen_strategy = "none"
    THEN [d |-> update_seg_report_auto_strategy(
                    loop.d, [enabled |-> TRUE, order |-> args.auto_strategy_order,
                             chosen |-> "none", attempts |-> loop.attempts]),
          ok |-> FALSE, wrote |-> FALSE, chosen |-> "none",
          attempts |-> loop.attempts]
    ELSE IF ~e.ok
    THEN [d |-> e.d, ok |-> FALSE, wrote |-> FALSE, chosen |-> loop.chosen_strategy,
          attempts |-> loop.attempts]
    ELSE [d |-> update_seg_report_auto_strategy(
                    e.d, [enabled |-> TRUE, order |-> args.auto_strategy_order,
                          chosen |-> loop.chosen_strategy, attempts |-> loop.attempts]),
          ok |-> TRUE, wrote |-> TRUE, chosen |-> loop.chosen_strategy,
          attempts |-> loop.attempts]

auto_strategy_emit(loop, args, params, w, fields) ==
    auto_strategy_finish(loop,
                         EmitRecords(loop.d, loop.chosen_strategy, loop.chosen_result,
                                     args, params, w, fields),
                         args)

run_auto_strategy_emit_segments(d, args, params, w, fields) ==
    auto_strategy_emit(AutoLoop(args.auto_strategy_order, 1, <<>>, d, args, params, w),
                       args, params, w, fields)

run_emit_segments(d, args, params, w, fields) ==
    IF args.auto_strategy
    THEN run_auto_strategy_emit_segments(d, args, params, w, fields)
    ELSE [chosen |-> "none", attempts |-> <<>>] @@ run_emit_single(d, args, params, w, fields)

(***************************************************************************)
(* SegmentPlanner.plan_and_execute for the one job of the run, and         *)
(* get_exit_code.  status is the job_stat status.                          *)
(***************************************************************************)
\* the job_stat once the two steps have run; a and e are their outcomes
job_stat(a, e, args) ==
    LET has_any_error == ~a.ok \/ ~e.ok
    IN  [d |-> e.d,
         status |-> IF has_any_error THEN "failed"
                    ELSE IF args.analyze THEN "analyzed"
                    ELSE IF args.emit_segments THEN "emitted"
                    ELSE "pending",
         exit_code |-> IF has_any_error THEN 1 ELSE 0,
         wrote |-> e.wrote, chosen |-> e.chosen, attempts |-> e.attempts]

\* the emit step, which runs whatever the analyze step's outcome a was
plan_emit(a, args, params, w, fields) ==
    job_stat(a,
             IF args.emit_segments THEN run_emit_segments(a.d, args, params, w, fields)
             ELSE [d |-> a.d, ok |-> TRUE, wrote |-> FALSE, chosen |-> "none",
                   attempts |-> <<>>],
             args)

plan_and_execute(d, args, params, w, fields) ==
    LET skip == /\ ~args.overwrite
                /\ IF args.emit_segments THEN d.segments_jsonl.exists
                   ELSE IF args.analyze THEN d.silences_json.exists
                   ELSE FALSE
    IN
    IF skip THEN [d |-> d, status |-> "skipped", exit_code |-> 0, wrote |-> FALSE,
                  chosen |-> "none", attempts |-> <<>>]
    ELSE IF args.dry_run
    THEN [d |-> d, status |-> "planned", exit_code |-> 0, wrote |-> FALSE, chosen |-> "none",
          attempts |-> <<>>]
    ELSE plan_emit(IF args.analyze THEN run_analyze(write_seg_report(d), args, w)
                   ELSE [d |-> write_seg_report(d), ok |-> TRUE],
                   args, params, w, fields)

(***************************************************************************)
(* cmd_segment: the argument checks, the dependency checks on              *)
(* args.strategy, then the planner.  status "rejected" stands for a        *)
(* return before any job is planned.                                       *)
(***************************************************************************)
cmd_segment(d, args, params, w, fields) ==
    LET rejected(code) == [d |-> d, status |-> "rejected", exit_code |-> code,
                           wrote |-> FALSE, chosen |-> "none", attempts |-> <<>>]
    IN  IF args.analyze /\ args.dry_run THEN rejected(2)
        ELSE IF args.emit_segments /\ args.dry_run THEN rejected(2)
        ELSE IF params.max_seg_sec < params.min_seg_sec THEN rejected(2)
        ELSE IF args.strategy = "silence" /\ ~w.ffmpeg THEN rejected(1)
        ELSE IF args.strategy = "vad" /\ ~w.webrtcvad THEN rejected(2)
        ELSE plan_and_execute(d, args, params, w, fields)

(***************************************************************************)
(* validate.py.  A ValidationResult is the number of errors and warnings   *)
(* (ok is errors = 0) and the stats.                                       *)
(*                                                                         *)
(* validate_segments_jsonl, the loop over the lines.  A line is skipped    *)
(* once the result holds an error.  The overlap check takes the previous   *)
(* segment as segments[index - 1]: for the first line the index is 0 and   *)
(* Python's segments[-1] is the LAST segment of the file.                  *)
(***************************************************************************)
RECURSIVE ValidateLines(_, _, _, _, _)
ValidateLines(segments, i, acc, strict, err) ==
    IF i > Len(segments) THEN acc
    ELSE IF acc.errors > 0 THEN ValidateLines(segments, i + 1, acc, strict, err)
    ELSE
      LET seg == segments[i]
          bool(b) == IF b THEN 1 ELSE 0
          id_num == ParseSegId(seg.id)
          id_error ==
              IF id_num = -1 THEN TRUE
              ELSE IF acc.has_prev_id THEN id_num # acc.prev_id_num + 1
              ELSE id_num # 1
          prev_seg == IF i = 1 THEN segments[Len(segments)] ELSE segments[i - 1]
          overlap == Len(segments) > 1 /\ ~FpLE(prev_seg.end_sec - seg.start_sec, 1, err)
          errors == bool(seg.start_sec < 0)
                    + bool(seg.end_sec <= seg.start_sec)
                    + bool(Abs(seg.duration_sec - (seg.end_sec - seg.start_sec)) > 2)
                    + bool(id_error)
                    + bool(acc.has_prev_start /\ seg.start_sec < acc.prev_start)
                    + bool(overlap /\ strict)
          warnings == bool(overlap /\ ~strict)
                      + bool(seg.pre_silence_sec < 0) + bool(seg.post_silence_sec < 0)
      IN  ValidateLines(segments, i + 1,
                        [errors |-> acc.errors + errors,
                         warnings |-> acc.warnings + warnings,
                         overlap_lines |-> acc.overlap_lines \cup (IF overlap THEN {i} ELSE {}),
                         has_prev_start |-> TRUE, prev_start |-> seg.start_sec,
                         has_prev_id |-> acc.has_prev_id \/ id_num # -1,
                         prev_id_num |-> IF id_num # -1 THEN id_num ELSE acc.prev_id_num],
                        strict, err)

RECURSIVE SumDurationSec(_)
SumDurationSec(segments) ==
    IF segments = <<>> THEN 0
    ELSE Head(segments).duration_sec + SumDurationSec(Tail(segments))

validate_segments_jsonl(segments_jsonl, strict, err) ==
    IF ~segments_jsonl.exists
    THEN [errors |-> 1, warnings |-> 0, segments |-> 0, speech_total_sec |-> 0,
          overlap_lines |-> {}]
    ELSE IF segments_jsonl.records = <<>>
    THEN [errors |-> 0, warnings |-> 1, segments |-> 0, speech_total_sec |-> 0,
          overlap_lines |-> {}]
    ELSE LET acc == ValidateLines(segments_jsonl.records, 1,
                                  [errors |-> 0, warnings |-> 0, overlap_lines |-> {},
                                   has_prev_start |-> FALSE, prev_start |-> 0,
                                   has_prev_id |-> FALSE, prev_id_num |-> 0],
                                  strict, err)
         IN  [errors |-> acc.errors, warnings |-> acc.warnings,
              overlap_lines |-> acc.overlap_lines,
              segments |-> Len(segments_jsonl.records),
              speech_total_sec |-> SumDurationSec(segments_jsonl.records)]

RequiredReportFields == {"version", "created_at", "versions", "params", "audio_path"}

validate_seg_report_json(seg_report) ==
    [errors |-> Cardinality(RequiredReportFields \ seg_report.keys), warnings |-> 0]

\* silences.json as write_artifact leaves it holds every required field
validate_silences_json(silences_json) ==
    [errors |-> Cardinality({i \in 1..Len(silences_json.silences) :
                                silences_json.silences[i][1] < 0})
                + Cardinality({i \in 1..Len(silences_json.silences) :
                                  silences_json.silences[i][2] <= silences_json.silences[i][1]}),
     warnings |-> 0]

(***************************************************************************)
(* validate_consistency: the findings it adds to segments_result and to    *)
(* silences_result, as errors under --strict and as warnings otherwise.    *)
(* It reads the report only when report_result.ok.  raised: the report's   *)
(* "segments" is a list, and .get on it raises AttributeError.             *)
(***************************************************************************)
validate_consistency(d, segments_result, report_result, silences_result) ==
    LET report_ok == d.seg_report.exists /\ report_result.errors = 0
        silences_ok == d.silences_json.exists /\ silences_result.errors = 0
        count_differs ==
            report_ok /\ segments_result.segments # d.seg_report.segments.count
        total_differs ==
            report_ok /\ Abs(segments_result.speech_total_sec
                             - d.seg_report.segments.speech_total_sec) > 100
        silences_differ ==
            /\ silences_ok /\ report_ok
            /\ "silence" \in d.seg_report.analysis
            /\ Abs(d.silences_json.duration_sec - SumDur(d.silences_json.silences)) > 100
        bool(b) == IF b THEN 1 ELSE 0
    IN  [raised |-> report_ok /\ d.seg_report.segments.kind = "list",
         segments_findings |-> bool(count_differs) + bool(total_differs),
         silences_findings |-> bool(silences_differ)]

(***************************************************************************)
(* validate_file_or_dir on the job's directory, and cmd_validate's exit    *)
(* code: 0 when ok, 2 on violations, 1 when validation raised.             *)
(***************************************************************************)
validate_file_or_dir(d, strict, err) ==
    IF ~d.segments_jsonl.exists
    THEN [ok |-> TRUE, checked_files |-> 0, failed_files |-> 0, errors |-> 0,
          warnings |-> 0, exit_code |-> 0]
    ELSE
      LET segments_result == validate_segments_jsonl(d.segments_jsonl, strict, err)
          report_result == IF d.seg_report.exists THEN validate_seg_report_json(d.seg_report)
                           ELSE [errors |-> 0, warnings |-> 0]
          silences_result == IF d.silences_json.exists
                             THEN validate_silences_json(d.silences_json)
                             ELSE [errors |-> 0, warnings |-> 0]
          c == validate_consistency(d, segments_result, report_result, silences_result)
          add_e(n) == IF strict THEN n ELSE 0
          add_w(n) == IF strict THEN 0 ELSE n
          segments_errors == segments_result.errors + add_e(c.segments_findings)
          silences_errors == silences_result.errors + add_e(c.silences_findings)
          failed_files == (IF segments_errors > 0 THEN 1 ELSE 0)
                          + (IF report_result.errors > 0 THEN 1 ELSE 0)
                          + (IF silences_errors > 0 THEN 1 ELSE 0)
      IN  IF c.raised
          THEN [ok |-> FALSE, checked_files |-> 1, failed_files |-> 0, errors |-> 0,
                warnings |-> 0, exit_code |-> 1]
          ELSE [ok |-> failed_files = 0, checked_files |-> 1, failed_files |-> failed_files,
                errors |-> segments_errors + report_result.errors + silences_errors,
                warnings |-> segments_result.warnings + add_w(c.segments_findings)
                             + add_w(c.silences_findings),
                exit_code |-> IF failed_files = 0 THEN 0 ELSE 2]

(***************************************************************************)
(* State.                                                                  *)
(*   chain        : one call of the post-processing chain (its arguments,  *)
(*                  and the returned list once it has run)                 *)
(*   world        : the audio and the environment of the job; it does not  *)
(*                  change between runs                                    *)
(*   out_dir      : the files of the job's output directory                *)
(*   last         : the last command run on out_dir and what it returned   *)
(*   recordFields : the fields the SegmentRecord type accepts              *)
(*   writer       : one overwrite of one output file, statement by         *)
(*                  statement: the file's content on disk before and now,  *)
(*                  the content being written, the writer's position       *)
(*   run          : one run of segment over its list of jobs: the loop of  *)
(*                  plan_and_execute, job by job, and the run-level files  *)
(*   call         : one call of a function that takes its input from the   *)
(*                  file system (the resolver, the validator, the reader   *)
(*                  of silences.json): its arguments and its result        *)
(***************************************************************************)
VARIABLES chain, world, out_dir, last, recordFields, writer, run, call

vars == <<chain, world, out_dir, last, recordFields, writer, run, call>>

Intervals == {iv \in (0..MaxDur) \X (0..MaxDur) : iv[1] < iv[2]}

\* what a detector hands over: intervals in time order that do not overlap
IsSortedDisjoint(l) == \A i \in 1..(Len(l) - 1) : l[i][2] <= l[i + 1][1]

RawLists == UNION {{l \in [1..n -> Intervals] : IsSortedDisjoint(l)} : n \in 0..MaxRaw}

PadChoices == {0, 1}
MinSegChoices == 1..3
MaxSegChoices == 1..4

ChainIdle == [pc |-> "idle"]
WriterIdle == [pc |-> "idle"]
RunIdle == [pc |-> "idle"]
CallIdle == [pc |-> "idle"]

\* the parameters of the job runs that the runs do not vary
JobParams ==
    [pad_sec |-> 0, min_seg_sec |-> 2, max_seg_sec |-> 4,
     auto_strategy_min_segments |-> 2, auto_strategy_min_speech_total_sec |-> 3]

Detected(l) == [fail |-> FALSE, list |-> l]
DetectorFails == [fail |-> TRUE, list |-> <<>>]

\* silencedetect: one silence in the middle, silence throughout, or a failure
SilenceOutcomes ==
    {Detected(<<(<<2, MaxDur - 2>>)>>), Detected(<<(<<0, MaxDur>>)>>), DetectorFails}
\* energy: two islands of speech
EnergyOutcomes == {Detected(<<(<<0, 2>>), (<<MaxDur - 2, MaxDur>>)>>)}
\* vad: two islands 0.001 s apart, which the chain merges or not with w.err,
\* or a failure
VadOutcomes == {Detected(<<(<<0, 2>>), (<<3, MaxDur>>)>>), DetectorFails}

Worlds ==
    [ffmpeg : BOOLEAN, webrtcvad : BOOLEAN, duration_sec : {MaxDur},
     silence : SilenceOutcomes, energy : EnergyOutcomes, vad : VadOutcomes, err : FpErr]

IdleWorld ==
    [ffmpeg |-> FALSE, webrtcvad |-> FALSE, duration_sec |-> 0,
     silence |-> DetectorFails, energy |-> DetectorFails, vad |-> DetectorFails, err |-> 0]

StrategyOrders == {<<"silence", "vad", "energy">>, <<"vad", "silence">>}
DefaultOrder == <<"silence", "vad", "energy">>

\* the command lines: the order matters only under --auto-strategy with
\* --emit-segments; --dry-run is tried alone and with --analyze
SegmentArgs ==
    {a \in [analyze : BOOLEAN, emit_segments : BOOLEAN, overwrite : BOOLEAN,
            dry_run : BOOLEAN, strategy : Strategies, auto_strategy : BOOLEAN,
            auto_strategy_order : StrategyOrders] :
        /\ (~a.auto_strategy => a.auto_strategy_order = DefaultOrder)
        /\ (a.auto_strategy => a.emit_segments /\ ~a.analyze)
        /\ (a.dry_run => ~a.overwrite /\ a.strategy = "energy" /\ ~a.emit_segments)
        /\ (a.overwrite => a.analyze \/ a.emit_segments)}

NoArgs ==
    [analyze |-> FALSE, emit_segments |-> FALSE, overwrite |-> FALSE, dry_run |-> FALSE,
     strategy |-> "none", auto_strategy |-> FALSE, auto_strategy_order |-> <<>>]

NoCommand ==
    [cmd |-> "none", status |-> "none", exit_code |-> 0, wrote |-> FALSE,
     chosen |-> "none", attempts |-> <<>>, auto |-> FALSE,
     args_order |-> <<>>, args |-> NoArgs,
     strict |-> FALSE, fresh |-> FALSE, ok |-> FALSE, errors |-> 0]

InitChain ==
    /\ chain \in {[pc |-> "input", speech_segments_raw |-> raw, duration_sec |-> MaxDur,
                pad_sec |-> pad, min_seg_sec |-> mn, max_seg_sec |-> mx, err |-> e,
                final_segments |-> <<>>] :
               raw \in RawLists, pad \in PadChoices,
               mn \in MinSegChoices, mx \in MaxSegChoices, e \in FpErr}
    \* cmd_segment rejects max_seg_sec < min_seg_sec before any job runs
    /\ chain.max_seg_sec >= chain.min_seg_sec
    /\ world = IdleWorld
    /\ out_dir = EmptyDir
    /\ last = NoCommand
    /\ recordFields = DeclaredRecordFields
    /\ writer = WriterIdle
    /\ run = RunIdle
    /\ call = CallIdle

PostprocessCall ==
    /\ chain.pc = "input"
    /\ chain' = [chain EXCEPT
                   !.pc = "done",
                   !.final_segments =
                       postprocess_segments(chain.speech_segments_raw, chain.duration_sec,
                                            chain.pad_sec, chain.min_seg_sec,
                                            chain.max_seg_sec, chain.err)]
    /\ UNCHANGED <<world, out_dir, last, recordFields, writer, run, call>>

NextChain == PostprocessCall

SpecChain == InitChain /\ [][NextChain]_vars

(***************************************************************************)
(* One run of "segment" on the job: the whole of cmd_segment.  last keeps  *)
(* the arguments of a run that wrote segments.jsonl.                       *)
(***************************************************************************)
RunSegment ==
    \E args \in SegmentArgs :
        \E r \in {cmd_segment(out_dir, args, JobParams, world, recordFields)} :
            /\ out_dir' = r.d
            /\ last' = [NoCommand EXCEPT
                            !.cmd = "segment", !.status = r.status,
                            !.exit_code = r.exit_code, !.wrote = r.wrote,
                            !.chosen = r.chosen, !.attempts = r.attempts,
                            !.auto = args.auto_strategy,
                            !.args_order = args.auto_strategy_order,
                            !.args = IF r.wrote THEN args ELSE NoArgs]
            /\ UNCHANGED <<chain, world, recordFields, writer, run, call>>

(***************************************************************************)
(* One run of "validate" on the job's directory, default or --strict.      *)
(* last.fresh: the command before it was a segment run that wrote          *)
(* segments.jsonl.                                                         *)
(***************************************************************************)
RunValidate ==
    \E strict \in BOOLEAN :
        \E summary \in {validate_file_or_dir(out_dir, strict, world.err)} :
            /\ last' = [NoCommand EXCEPT
                            !.cmd = "validate", !.exit_code = summary.exit_code,
                            !.strict = strict,
                            !.fresh = (last.cmd = "segment" /\ last.wrote),
                            !.ok = summary.ok, !.errors = summary.errors]
            /\ UNCHANGED <<chain, world, out_dir, recordFields, writer, run, call>>

Init ==
    /\ chain = ChainIdle
    /\ world \in Worlds
    /\ out_dir = EmptyDir
    /\ last = NoCommand
    /\ recordFields = DeclaredRecordFields
    /\ writer = WriterIdle
    /\ run = RunIdle
    /\ call = CallIdle

InitRec ==
    /\ chain = ChainIdle
    /\ world \in Worlds
    /\ out_dir = EmptyDir
    /\ last = NoCommand
    /\ recordFields = SpecRecordFields
    /\ writer = WriterIdle
    /\ run = RunIdle
    /\ call = CallIdle

Next == RunSegment \/ RunValidate

Spec == Init /\ [][Next]_vars

SpecRec == InitRec /\ [][Next]_vars

(***************************************************************************)
(* C2: the list returned by the post-processing chain has strictly         *)
(* ascending starts, and no segment ends more than 0.001 s after the next  *)
(* one starts.                                                             *)
(***************************************************************************)
C2_SortedNonOverlapping ==
    chain.pc = "done" =>
        \A i \in 1..(Len(chain.final_segments) - 1) :
            /\ chain.final_segments[i][1] < chain.final_segments[i + 1][1]
            /\ chain.final_segments[i][2] <= chain.final_segments[i + 1][1] + 1

\* C2 witness: the chain has run with padding and returned two or more
\* segments
C2_Witness ==
    /\ chain.pc = "done"
    /\ Len(chain.final_segments) >= 2
    /\ chain.pad_sec > 0

(***************************************************************************)
(* C3: every segment returned by the chain has                             *)
(* min_seg_sec - 0.001 <= duration <= max_seg_sec + 0.001, except a single *)
(* isolated short segment.                                                 *)
(***************************************************************************)
C3_DurationBounds ==
    chain.pc = "done" =>
        \A i \in 1..Len(chain.final_segments) :
            LET d == chain.final_segments[i][2] - chain.final_segments[i][1]
            IN  /\ d <= chain.max_seg_sec + 1
                /\ (d >= chain.min_seg_sec - 1 \/ Len(chain.final_segments) = 1)

(***************************************************************************)
(* The writers.  write_segments_jsonl, write_seg_report, update_seg_report *)
(* _analysis, update_seg_report_segments, _update_seg_report_auto_         *)
(* strategy, write_artifact, _write_run_summary and _write_run_manifest    *)
(* all write the same way:                                                 *)
(*     with open(path, "w", encoding="utf-8") as f:                        *)
(*         f.write(...) for each line   /   json.dump(data, f)             *)
(* open(path, "w") truncates the target itself; the chunks then reach the  *)
(* file in order, and leaving the with block closes it.  The process can   *)
(* stop between any two of these steps.  A content is the sequence of its  *)
(* chunks (the lines of segments.jsonl, the pieces json.dump writes).      *)
(***************************************************************************)
OutputFiles ==
    {"segments.jsonl", "seg_report.json", "silences.json", "run_summary.json",
     "run_manifest.json"}

MaxChunks == 2
Chunks == {"a", "b"}
Contents == UNION {[1..n -> Chunks] : n \in 0..MaxChunks}

InitWrite ==
    /\ writer \in {[pc |-> "start", path |-> f, old |-> o, new |-> n, on_disk |-> o] :
                    f \in OutputFiles, o \in Contents, n \in Contents}
    /\ chain = ChainIdle
    /\ world = IdleWorld
    /\ out_dir = EmptyDir
    /\ last = NoCommand
    /\ recordFields = DeclaredRecordFields
    /\ run = RunIdle
    /\ call = CallIdle

\* open(path, "w"): the target is truncated
WriterOpen ==
    /\ writer.pc = "start"
    /\ writer' = [writer EXCEPT !.pc = "open", !.on_disk = <<>>]
    /\ UNCHANGED <<chain, world, out_dir, last, recordFields, run, call>>

\* f.write / json.dump: the next chunk reaches the file
WriterWrite ==
    /\ writer.pc = "open"
    /\ Len(writer.on_disk) < Len(writer.new)
    /\ writer' = [writer EXCEPT !.on_disk = Append(@, writer.new[Len(@) + 1])]
    /\ UNCHANGED <<chain, world, out_dir, last, recordFields, run, call>>

\* the end of the with block
WriterClose ==
    /\ writer.pc = "open"
    /\ Len(writer.on_disk) = Len(writer.new)
    /\ writer' = [writer EXCEPT !.pc = "closed"]
    /\ UNCHANGED <<chain, world, out_dir, last, recordFields, run, call>>

\* the process is killed, the machine loses power
WriterCrash ==
    /\ writer.pc \in {"start", "open"}
    /\ writer' = [writer EXCEPT !.pc = "crashed"]
    /\ UNCHANGED <<chain, world, out_dir, last, recordFields, run, call>>

NextWrite == WriterOpen \/ WriterWrite \/ WriterClose \/ WriterCrash

SpecWrite == InitWrite /\ [][NextWrite]_vars

C4_ReportMatchesSegments ==
    (out_dir.segments_jsonl.exists /\ out_dir.seg_report.exists) =>
        /\ out_dir.seg_report.segments.kind = "dict"
        /\ out_dir.seg_report.segments.count = Len(out_dir.segments_jsonl.records)
        /\ Abs(out_dir.seg_report.segments.speech_total_sec
               - SumDurationSec(out_dir.segments_jsonl.records)) <= 100

(***************************************************************************)
(* C5: validate, default or strict, run on the directory right after the   *)
(* segment run that wrote its segments.jsonl, returns ok with no errors.   *)
(***************************************************************************)
C5_FreshOutputValidates ==
    (last.cmd = "validate" /\ last.fresh) => (last.ok /\ last.errors = 0)

CandidatePasses(strategy_name, w, params) ==
    LET result == Analyze(strategy_name, w)
    IN  /\ result.exc = "none"
        /\ QualityGate(postprocess_segments(result.speech_segments_raw, result.duration_sec,
                                            params.pad_sec, params.min_seg_sec,
                                            params.max_seg_sec, w.err),
                       result.duration_sec, params) = "none"

AutoRunDone == last.cmd = "segment" /\ last.auto /\ last.status \in {"emitted", "failed"}

C8_AttemptsUpToChosen ==
    AutoRunDone =>
        LET a == out_dir.seg_report.auto_strategy
            passing == {i \in 1..Len(a.order) : CandidatePasses(a.order[i], world, JobParams)}
            n == IF passing = {} THEN Len(a.order)
                 ELSE CHOOSE i \in passing : \A j \in passing : i <= j
        IN  /\ a.enabled
            /\ a.order \in StrategyOrders
            /\ Len(a.attempts) = n
            /\ \A i \in 1..n : /\ a.attempts[i].strategy = a.order[i]
                               /\ a.attempts[i].ok = (i \in passing)
            /\ a.chosen = (IF passing = {} THEN "none" ELSE a.order[n])
            /\ last.chosen = a.chosen

DependencyMissing(strategy_name, w) ==
    \/ strategy_name = "silence" /\ ~w.ffmpeg
    \/ strategy_name = "vad" /\ ~w.webrtcvad

C10_MissingDependencyNotFatal ==
    (last.cmd = "segment" /\ last.auto) =>
        /\ last.status # "rejected"
        /\ \A i \in 1..Len(out_dir.seg_report.auto_strategy.attempts) :
               LET attempt == out_dir.seg_report.auto_strategy.attempts[i]
               IN  DependencyMissing(attempt.strategy, world)
                       => attempt.reason = "missing_dependency"

(***************************************************************************)
(* C6: at every moment of an overwrite, and after a crash, the target      *)
(* holds the complete old content or the complete new content.             *)
(***************************************************************************)
C6_AtomicOverwrite ==
    writer.pc # "idle" => (writer.on_disk = writer.old \/ writer.on_disk = writer.new)

(***************************************************************************)
(* C11: an auto-strategy run ends as a job outcome whatever a candidate    *)
(* raises; a candidate whose analysis raises (anything but the ImportError *)
(* of a missing library, which has its own reason) gets an attempt that is *)
(* not ok with the reason "error", and the loop goes on to the next        *)
(* candidate of the order.                                                 *)
(***************************************************************************)
CandidateRaises(strategy_name, w) ==
    Analyze(strategy_name, w).exc \notin {"none", "ImportError"}

C11_CandidateErrorContained ==
    AutoRunDone =>
        LET n == IF last.chosen = "none" THEN Len(last.args_order)
                 ELSE CHOOSE i \in 1..Len(last.args_order) : last.args_order[i] = last.chosen
        IN  /\ Len(last.attempts) = n
            /\ \A i \in 1..n :
                   /\ last.attempts[i].strategy = last.args_order[i]
                   /\ CandidateRaises(last.args_order[i], world)
                          => /\ ~last.attempts[i].ok
                             /\ last.attempts[i].reason = "error"
                             /\ last.chosen # last.args_order[i]

\* C11 witness: the loop of a run turned what a candidate raised into an
\* attempt and went on to choose a later candidate
C11_Witness ==
    /\ AutoRunDone
    /\ last.chosen # "none"
    /\ \E i \in 1..Len(last.attempts) :
           /\ CandidateRaises(last.attempts[i].strategy, world)
           /\ last.attempts[i].reason = "error"

(***************************************************************************)
(* One run of segment over its list of jobs: the tail of cmd_segment       *)
(* (InputResolver.resolve, SegmentPlanner.plan_and_execute, get_exit_code) *)
(* with the loop of plan_and_execute taken job by job.  What happens in a  *)
(* job is given by the job's environment:                                  *)
(*   output_exists : the file the skip test looks at exists                *)
(*   report_write  : "ok", or the exception write_seg_report raises (the   *)
(*                   job's output directory cannot be created or written)  *)
(*   analyze, emit : "ok", or the exception raised inside _run_analyze /   *)
(*                   _run_emit_segments, which catch it and return False;  *)
(*                   TimeoutError is what run_cmd raises on a timeout      *)
(***************************************************************************)
MaxJobs == 2

JobEnvs ==
    [output_exists : BOOLEAN, report_write : {"ok", "OSError"},
     analyze : {"ok", "TimeoutError"}, emit : {"ok", "RuntimeError"}]

JobLists == UNION {[1..n -> JobEnvs] : n \in 0..MaxJobs}

\* cmd_segment has returned 2 on --dry-run with --analyze or --emit-segments
RunArgs ==
    {a \in [dry_run : BOOLEAN, overwrite : BOOLEAN, analyze : BOOLEAN,
            emit_segments : BOOLEAN] :
        a.dry_run => ~a.analyze /\ ~a.emit_segments}

NoSummary == [exists |-> FALSE, dry_run |-> FALSE, failures |-> <<>>, jobs_total |-> 0]

InitRun ==
    /\ run \in {[pc |-> "start", args |-> a, input_exists |-> x, jobs |-> js, i |-> 1,
                 job_stats |-> <<>>, jobs_failed |-> <<>>, has_any_error |-> FALSE,
                 reports |-> {}, run_summary |-> NoSummary, run_manifest |-> FALSE,
                 exit_code |-> -1] :
                a \in RunArgs, x \in BOOLEAN, js \in JobLists}
    /\ (~run.input_exists => run.jobs = <<>>)
    /\ chain = ChainIdle
    /\ world = IdleWorld
    /\ out_dir = EmptyDir
    /\ last = NoCommand
    /\ recordFields = DeclaredRecordFields
    /\ writer = WriterIdle
    /\ call = CallIdle

\* resolver.resolve: FileNotFoundError when the input path does not exist,
\* which cmd_segment turns into exit code 1; plan_and_execute returns at
\* once on an empty job list
ResolveInput ==
    /\ run.pc = "start"
    /\ run' = IF ~run.input_exists THEN [run EXCEPT !.pc = "done", !.exit_code = 1]
              ELSE IF run.jobs = <<>> THEN [run EXCEPT !.pc = "done", !.exit_code = 0]
              ELSE [run EXCEPT !.pc = "loop"]
    /\ UNCHANGED <<chain, world, out_dir, last, recordFields, writer, call>>

\* the body of the for loop of plan_and_execute for one job
plan_job(job, args) ==
    LET skip_file == args.emit_segments \/ args.analyze
        analyze_success == ~args.analyze \/ job.analyze = "ok"
        emit_success == ~args.emit_segments \/ job.emit = "ok"
    IN  IF skip_file /\ ~args.overwrite /\ job.output_exists
        THEN [status |-> "skipped", failed |-> FALSE, has_any_error |-> FALSE,
              report |-> FALSE]
        ELSE IF args.dry_run
        THEN [status |-> "planned", failed |-> FALSE, has_any_error |-> FALSE,
              report |-> FALSE]
        ELSE IF job.report_write # "ok"
        THEN [status |-> "failed", failed |-> TRUE, has_any_error |-> FALSE,
              report |-> FALSE]
        ELSE IF ~analyze_success \/ ~emit_success
        THEN [status |-> "failed", failed |-> TRUE, has_any_error |-> TRUE,
              report |-> TRUE]
        ELSE [status |-> IF args.analyze THEN "analyzed"
                         ELSE IF args.emit_segments THEN "emitted" ELSE "pending",
              failed |-> FALSE, has_any_error |-> FALSE, report |-> TRUE]

\* the loop ended by the first failed job
RunJob_failure_ends_run ==
    /\ run.pc = "loop"
    /\ run.i <= Len(run.jobs)
    /\ \E r \in {plan_job(run.jobs[run.i], run.args)} :
           run' = [run EXCEPT
                     !.i = IF r.failed THEN Len(run.jobs) + 1 ELSE @ + 1,
                     !.job_stats = Append(@, [job |-> run.i, status |-> r.status]),
                     !.jobs_failed = IF r.failed THEN Append(@, run.i) ELSE @,
                     !.has_any_error = @ \/ r.has_any_error,
                     !.reports = IF r.report THEN @ \cup {run.i} ELSE @]
    /\ UNCHANGED <<chain, world, out_dir, last, recordFields, writer, call>>

RunJob ==
    /\ run.pc = "loop"
    /\ run.i <= Len(run.jobs)
    /\ \E r \in {plan_job(run.jobs[run.i], run.args)} :
           run' = [run EXCEPT
                     !.i = @ + 1,
                     !.job_stats = Append(@, [job |-> run.i, status |-> r.status]),
                     !.jobs_failed = IF r.failed THEN Append(@, run.i) ELSE @,
                     !.has_any_error = @ \/ r.has_any_error,
                     !.reports = IF r.report THEN @ \cup {run.i} ELSE @]
    /\ UNCHANGED <<chain, world, out_dir, last, recordFields, writer, call>>

\* the summary left out of a dry run
FinishRun_no_summary_on_dry_run ==
    /\ run.pc = "loop"
    /\ run.i > Len(run.jobs)
    /\ run' = [run EXCEPT
                 !.pc = "done",
                 !.run_summary = IF run.args.dry_run THEN @
                                 ELSE [exists |-> TRUE, dry_run |-> FALSE,
                                       failures |-> run.jobs_failed,
                                       jobs_total |-> Len(run.jobs)],
                 !.run_manifest = ~run.args.dry_run,
                 !.exit_code = IF run.has_any_error THEN 1 ELSE 0]
    /\ UNCHANGED <<chain, world, out_dir, last, recordFields, writer, call>>

\* after the loop: _write_run_summary, _write_run_manifest unless dry-run,
\* and get_exit_code
FinishRun ==
    /\ run.pc = "loop"
    /\ run.i > Len(run.jobs)
    /\ run' = [run EXCEPT
                 !.pc = "done",
                 !.run_summary = [exists |-> TRUE, dry_run |-> run.args.dry_run,
                                  failures |-> run.jobs_failed,
                                  jobs_total |-> Len(run.jobs)],
                 !.run_manifest = ~run.args.dry_run,
                 !.exit_code = IF run.has_any_error THEN 1 ELSE 0]
    /\ UNCHANGED <<chain, world, out_dir, last, recordFields, writer, call>>

NextRun == ResolveInput \/ RunJob \/ FinishRun

SpecRun == InitRun /\ [][NextRun]_vars

\* a finished run that had jobs to loop over
RunDone == run.pc = "done" /\ run.input_exists /\ run.jobs # <<>>

\* a step of the job itself failed: its report could not be written, or its
\* analysis or its emission raised (a timeout of the external tool included)
OwnFailure(job, args) ==
    /\ ~((args.analyze \/ args.emit_segments) /\ ~args.overwrite /\ job.output_exists)
    /\ ~args.dry_run
    /\ \/ job.report_write # "ok"
       \/ args.analyze /\ job.analyze # "ok"
       \/ args.emit_segments /\ job.emit # "ok"

\* C12: a failure inside one job, a timeout of the external tool included,
\* is a failure of that job only: at the end of the run every job of the list
\* has been processed and has its own status, in list order, and a job is
\* recorded as failed exactly when one of its own steps failed, wherever the
\* failing jobs stand in the list.
C12_FailureStaysInJob ==
    RunDone =>
        /\ Len(run.job_stats) = Len(run.jobs)
        /\ \A i \in 1..Len(run.jobs) :
               /\ run.job_stats[i].job = i
               /\ run.job_stats[i].status = "failed" <=> OwnFailure(run.jobs[i], run.args)

\* C12 witness: the first job fails on a timeout of the analysis and the job
\* after it is still analyzed.
C12_Witness ==
    /\ RunDone
    /\ Len(run.jobs) >= 2
    /\ run.args.analyze
    /\ run.jobs[1].analyze = "TimeoutError"
    /\ run.job_stats[1].status = "failed"
    /\ run.job_stats[2].status = "analyzed"

\* C13: whenever the failures list of the run summary is not empty, the
\* process exits with code 1.
C13_FailedJobExitsOne ==
    RunDone /\ run.run_summary.failures # <<>> => run.exit_code = 1

\* C15 as stated: every run that got as far as planning has written
\* run_summary.json when it ends, with dry_run as in the arguments.
C15_EveryRunWritesSummary ==
    run.pc = "done" /\ run.input_exists =>
        /\ run.run_summary.exists
        /\ run.run_summary.dry_run = run.args.dry_run

\* C15 amended: every run with at least one job has written run_summary.json
\* when it ends, also in dry-run mode, where the summary records dry_run = true;
\* a run whose input resolves to no job writes no summary.
C15_RunWithJobsWritesSummary ==
    /\ RunDone => /\ run.run_summary.exists
                  /\ run.run_summary.dry_run = run.args.dry_run
                  /\ run.run_summary.jobs_total = Len(run.jobs)
    /\ run.pc = "done" /\ run.jobs = <<>> => ~run.run_summary.exists

\* C15 witness: a dry run over two jobs has ended and its summary records
\* dry_run = true.
C15_Witness ==
    /\ RunDone
    /\ run.args.dry_run
    /\ Len(run.jobs) = 2
    /\ run.run_summary.exists
    /\ run.run_summary.dry_run

\* C16: at the end of a run, every job that was a no-op (planned in a dry
\* run, or skipped because its output exists and overwrite is off) has had its
\* report written, and the run manifest has been written.
C16_NoOpJobWritesArtifacts ==
    RunDone =>
        \A i \in 1..Len(run.job_stats) :
            run.job_stats[i].status \in {"planned", "skipped"}
                => i \in run.reports /\ run.run_manifest

\* C14: whenever the segment command stops before planning, because of
\* invalid arguments or a missing dependency of the selected strategy, its
\* exit code is 2.
C14_StopsWithExitTwo ==
    last.cmd = "segment" /\ last.status = "rejected" => last.exit_code = 2

(***************************************************************************)
(* silences.json written by SilenceStrategy.analyze and read back by        *)
(* _run_emit_segments.  The duration of the audio comes from meta.json or  *)
(* ffprobe and is not a whole number of milliseconds: here it is counted   *)
(* in thirds of a millisecond (duration3), so that round(duration_sec, 3)  *)
(* rounds down (remainder 1) or up (remainder 2) and never ties.  Interval *)
(* bounds are whole milliseconds from parse_silencedetect_output on.       *)
(***************************************************************************)
ToSub(t) == 3 * t

\* round(x, 3) of a value counted in thirds of a millisecond
Round3(x3) == (x3 + 1) \div 3

\* clip to [0, duration], drop end <= start, round(3): the last loop of
\* parse_silencedetect_output and of normalize_intervals
RECURSIVE ClipRoundEach(_, _)
ClipRoundEach(intervals, duration3) ==
    IF intervals = <<>> THEN <<>>
    ELSE LET start3 == Min2(Max2(0, ToSub(Head(intervals)[1])), duration3)
             end3   == Min2(ToSub(Head(intervals)[2]), duration3)
             rest   == ClipRoundEach(Tail(intervals), duration3)
         IN  IF end3 <= start3 THEN rest
             ELSE <<(<<Round3(start3), Round3(end3)>>)>> \o rest

parse_silencedetect_output(intervals, duration3) ==
    ClipRoundEach(SortByStart(intervals), duration3)

normalize_intervals_unrounded(silences, duration3, err) ==
    IF silences = <<>> THEN <<>>
    ELSE ClipRoundEach(MergeFold(SortByStart(silences), <<>>, 1, err), duration3)

\* the last filter of complement_to_speech_segments left out
complement_unrounded_unfiltered(silences, duration3) ==
    IF silences = <<>>
    THEN (IF duration3 > 0 THEN <<(<<0, Round3(duration3)>>)>> ELSE <<>>)
    ELSE (IF silences[1][1] > 0 THEN <<(<<0, silences[1][1]>>)>> ELSE <<>>)
         \o ComplementGaps(silences, 1)
         \o (IF ToSub(Last(silences)[2]) < duration3
             THEN <<(<<Last(silences)[2], Round3(duration3)>>)>> ELSE <<>>)

\* complement_to_speech_segments with a duration that is not rounded
complement_unrounded(silences, duration3) ==
    LET segments ==
            IF silences = <<>>
            THEN (IF duration3 > 0 THEN <<(<<0, Round3(duration3)>>)>> ELSE <<>>)
            ELSE (IF silences[1][1] > 0 THEN <<(<<0, silences[1][1]>>)>> ELSE <<>>)
                 \o ComplementGaps(silences, 1)
                 \o (IF ToSub(Last(silences)[2]) < duration3
                     THEN <<(<<Last(silences)[2], Round3(duration3)>>)>> ELSE <<>>)
    IN  SelectSeq(segments, LAMBDA seg : seg[2] > seg[1])

\* SilenceStrategy.analyze from the parsed output on: the result and the
\* silences.json it writes
silence_analyze(intervals, duration3, err) ==
    LET normalized_silences ==
            normalize_intervals_unrounded(parse_silencedetect_output(intervals, duration3),
                                          duration3, err)
    IN  [speech_segments_raw |-> complement_unrounded(normalized_silences, duration3),
         silences_json |-> [exists |-> TRUE, duration_sec |-> Round3(duration3),
                            silences |-> normalized_silences]]

\* _run_emit_segments rebuilding the analysis result from silences.json; a
\* recorded duration of 0 is falsy and the strategy analyzes again
read_silences_json(silences_json, intervals, duration3, err) ==
    IF silences_json.duration_sec = 0
    THEN silence_analyze(intervals, duration3, err).speech_segments_raw
    ELSE complement_unrounded(
             normalize_intervals_unrounded(silences_json.silences,
                                           ToSub(silences_json.duration_sec), err),
             ToSub(silences_json.duration_sec))

InitTrip ==
    /\ call \in {[pc |-> "start", intervals |-> l, duration3 |-> d3, err |-> e,
                  speech_segments_raw |-> <<>>, silences_json |-> NoSilences,
                  read_back |-> <<>>] :
                 l \in RawLists, d3 \in 1..(ToSub(MaxDur) + 1), e \in FpErr}
    /\ chain = ChainIdle
    /\ world = IdleWorld
    /\ out_dir = EmptyDir
    /\ last = NoCommand
    /\ recordFields = DeclaredRecordFields
    /\ writer = WriterIdle
    /\ run = RunIdle

SilenceAnalyze ==
    /\ call.pc = "start"
    /\ \E r \in {silence_analyze(call.intervals, call.duration3, call.err)} :
           call' = [call EXCEPT !.pc = "written",
                                !.speech_segments_raw = r.speech_segments_raw,
                                !.silences_json = r.silences_json]
    /\ UNCHANGED <<chain, world, out_dir, last, recordFields, writer, run>>

ReadSilences ==
    /\ call.pc = "written"
    /\ call' = [call EXCEPT !.pc = "read",
                            !.read_back = read_silences_json(call.silences_json,
                                              call.intervals, call.duration3, call.err)]
    /\ UNCHANGED <<chain, world, out_dir, last, recordFields, writer, run>>

NextTrip == SilenceAnalyze \/ ReadSilences

SpecTrip == InitTrip /\ [][NextTrip]_vars

\* C18: the speech segments rebuilt from silences.json (normalize, then
\* complement with the recorded duration) are exactly the speech_segments_raw
\* the silence strategy produced when it wrote the file.
C18_SilencesRoundTrip ==
    call.pc = "read" => call.read_back = call.speech_segments_raw

\* C18 witness: the duration is not a whole number of milliseconds, a
\* silence was clipped to it, and the file read back gives two speech
\* segments or more.
C18_Witness ==
    /\ call.pc = "read"
    /\ call.duration3 % 3 # 0
    /\ call.silences_json.duration_sec > 0
    /\ \E i \in 1..Len(call.intervals) : ToSub(call.intervals[i][2]) > call.duration3
    /\ call.silences_json.silences # <<>>
    /\ Len(call.read_back) >= 2

(***************************************************************************)
(* InputResolver: the jobs of a batch root and of a manifest.jsonl.  A      *)
(* directory name is a sequence of characters, a path a sequence of        *)
(* directory names; str(path) joins the names with "/".                    *)
(***************************************************************************)
DirNames == {<<"a">>, <<"b">>, <<"a", "_", "b">>}

\* directories one and two levels down
Paths == {<<n>> : n \in DirNames} \cup {<<n, m>> : n, m \in DirNames}

\* str() of a relative path
RECURSIVE PathStr(_)
PathStr(path) ==
    IF Len(path) = 1 THEN path[1]
    ELSE path[1] \o <<"/">> \o PathStr(Tail(path))

unsafe_chars == {"/", "\\", ":", "*", "?", "\"", "<", ">", "|"}

sanitize_path_component(component) ==
    [i \in 1..Len(component) |->
        IF component[i] \in unsafe_chars THEN "_" ELSE component[i]]

\* the order of sorted() on paths: name by name, character by character
CharRank(c) == IF c = "/" THEN 47 ELSE IF c = "_" THEN 95 ELSE IF c = "a" THEN 97 ELSE 98

RECURSIVE NameLess(_, _)
NameLess(x, y) ==
    IF y = <<>> THEN FALSE
    ELSE IF x = <<>> THEN TRUE
    ELSE IF Head(x) # Head(y) THEN CharRank(Head(x)) < CharRank(Head(y))
    ELSE NameLess(Tail(x), Tail(y))

RECURSIVE PathLess(_, _)
PathLess(p, q) ==
    IF q = <<>> THEN FALSE
    ELSE IF p = <<>> THEN TRUE
    ELSE IF Head(p) # Head(q) THEN NameLess(Head(p), Head(q))
    ELSE PathLess(Tail(p), Tail(q))

RECURSIVE SortedPaths(_)
SortedPaths(S) ==
    IF S = {} THEN <<>>
    ELSE LET first == CHOOSE p \in S : \A q \in S \ {p} : PathLess(p, q)
         IN  <<first>> \o SortedPaths(S \ {first})

\* the output directory of a job: out_root / key / "seg", or workdir / "seg"
UnderOutRoot(key) == [base |-> "out_root", key |-> key]
InWorkdir(workdir) == [base |-> "workdir", key |-> workdir]

\* _resolve_root with the default pattern: every audio.wav below the root is
\* a job of the workdir that holds it; rel_key is the workdir's path
\* relative to the root
RECURSIVE RootJobs(_, _)
RootJobs(audio_dirs, out_mode) ==
    IF audio_dirs = <<>> THEN <<>>
    ELSE LET workdir == Head(audio_dirs)
             rel_key == PathStr(workdir)
         IN  <<[workdir |-> workdir, rel_key |-> rel_key,
                out_dir |-> IF out_mode = "in_place" THEN InWorkdir(workdir)
                            ELSE UnderOutRoot(sanitize_path_component(rel_key))]>>
             \o RootJobs(Tail(audio_dirs), out_mode)

resolve_root(dirs, out_mode) == RootJobs(SortedPaths(dirs), out_mode)

\* _resolve_manifest: one job per usable line, in line order; rel_key is the
\* last name of the line's workdir
RECURSIVE resolve_manifest(_, _)
resolve_manifest(lines, out_mode) ==
    IF lines = <<>> THEN <<>>
    ELSE LET workdir == Head(lines).workdir
             rel_key == Last(workdir)
             rest    == resolve_manifest(Tail(lines), out_mode)
         IN  IF ~Head(lines).usable THEN rest
             ELSE <<[workdir |-> workdir, rel_key |-> rel_key,
                     out_dir |-> IF out_mode = "in_place" THEN InWorkdir(workdir)
                                 ELSE UnderOutRoot(sanitize_path_component(rel_key))]>>
                  \o rest

OutModes == {"in_place", "out_root"}

ManifestLines == [workdir : Paths, usable : BOOLEAN]

InitResolve ==
    /\ call \in {[pc |-> "start", input_type |-> "root", out_mode |-> m, dirs |-> S,
                  lines |-> <<>>, jobs |-> <<>>] :
                 m \in OutModes, S \in {T \in SUBSET Paths : Cardinality(T) <= MaxJobs}}
           \cup {[pc |-> "start", input_type |-> "manifest", out_mode |-> m, dirs |-> {},
                  lines |-> l, jobs |-> <<>>] :
                 m \in OutModes, l \in UNION {[1..n -> ManifestLines] : n \in 0..MaxJobs}}
    /\ chain = ChainIdle
    /\ world = IdleWorld
    /\ out_dir = EmptyDir
    /\ last = NoCommand
    /\ recordFields = DeclaredRecordFields
    /\ writer = WriterIdle
    /\ run = RunIdle

ResolveRoot ==
    /\ call.pc = "start"
    /\ call.input_type = "root"
    /\ call' = [call EXCEPT !.pc = "resolved",
                            !.jobs = resolve_root(call.dirs, call.out_mode)]
    /\ UNCHANGED <<chain, world, out_dir, last, recordFields, writer, run>>

ResolveManifest ==
    /\ call.pc = "start"
    /\ call.input_type = "manifest"
    /\ call' = [call EXCEPT !.pc = "resolved",
                            !.jobs = resolve_manifest(call.lines, call.out_mode)]
    /\ UNCHANGED <<chain, world, out_dir, last, recordFields, writer, run>>

NextResolve == ResolveRoot \/ ResolveManifest

SpecResolve == InitResolve /\ [][NextResolve]_vars

\* C17: no two jobs resolved for one run, for two different workdirs, are
\* assigned the same output directory.
C17_OutDirsDistinct ==
    call.pc = "resolved" =>
        \A i, j \in 1..Len(call.jobs) :
            call.jobs[i].workdir # call.jobs[j].workdir
                => call.jobs[i].out_dir # call.jobs[j].out_dir

(***************************************************************************)
(* validate_segments_jsonl called on a file that somebody else wrote: the   *)
(* ids and the bounds of its lines are whatever the file holds.            *)
(***************************************************************************)
MaxLines == 2

\* ids: three well-formed ones, one that ends in a newline, one with five
\* digits, one with another prefix
FileIds ==
    {FormatSegId(1), FormatSegId(2), FormatSegId(3),
     [FormatSegId(1) EXCEPT !.tail = "\n"],
     [FormatSegId(1) EXCEPT !.digits = Tail(@)],
     [FormatSegId(2) EXCEPT !.prefix = "sg_"]}

\* <<start_sec, end_sec>> in milliseconds
FileSpans == {<<0, 2>>, <<1, 3>>, <<2, 4>>, <<0, 3>>}

FileLines ==
    {[id |-> id, start_sec |-> sp[1], end_sec |-> sp[2], duration_sec |-> sp[2] - sp[1],
      pre_silence_sec |-> 0, post_silence_sec |-> 0, strategy |-> "silence"] :
     id \in FileIds, sp \in FileSpans}

InitValidate ==
    /\ call \in {[pc |-> "start", segments |-> l, strict |-> st, err |-> e,
                  result |-> [errors |-> 0, warnings |-> 0, segments |-> 0,
                              speech_total_sec |-> 0, overlap_lines |-> {}]] :
                 l \in UNION {[1..n -> FileLines] : n \in 0..MaxLines},
                 st \in BOOLEAN, e \in FpErr}
    /\ chain = ChainIdle
    /\ world = IdleWorld
    /\ out_dir = EmptyDir
    /\ last = NoCommand
    /\ recordFields = DeclaredRecordFields
    /\ writer = WriterIdle
    /\ run = RunIdle

ValidateSegments ==
    /\ call.pc = "start"
    /\ call' = [call EXCEPT
                  !.pc = "validated",
                  !.result = validate_segments_jsonl(
                                 [exists |-> TRUE, records |-> call.segments],
                                 call.strict, call.err)]
    /\ UNCHANGED <<chain, world, out_dir, last, recordFields, writer, run>>

NextValidate == ValidateSegments

SpecValidate == InitValidate /\ [][NextValidate]_vars

\* C19: the lines for which the validator reports an overlap are exactly
\* the lines after the first whose start_sec lies more than 0.001 below the
\* end_sec of the line before; no overlap is reported for any other line.
C19_OverlapExactlyAfterFirst ==
    call.pc = "validated" =>
        call.result.overlap_lines =
            {i \in 2..Len(call.segments) :
                ~FpLE(call.segments[i - 1].end_sec - call.segments[i].start_sec, 1, call.err)}

\* C20: a file whose ids are not exactly seg_000001, seg_000002, ... in line
\* order is marked as failed: the result holds at least one error.
C20_BadIdsFail ==
    call.pc = "validated"
    /\ (\E i \in 1..Len(call.segments) : call.segments[i].id # FormatSegId(i))
        => call.result.errors > 0

(***************************************************************************)
(* Calls of the functions of the interval algebra on inputs of their own.  *)
(* call.fn names the function.  enforce_min_duration_by_merge is taken one *)
(* pass of its "while changed" loop at a time: call.prev is the list the   *)
(* last pass started from, call.result the list it built.                  *)
(***************************************************************************)
MaxSegs == 3

\* sorted lists of segments within 0..MaxDur + 1
SegLists ==
    UNION {{l \in [1..n -> {iv \in (0..(MaxDur + 1)) \X (0..(MaxDur + 1)) : iv[1] < iv[2]}] :
               IsSortedDisjoint(l)} : n \in 0..MaxSegs}

FnCall(fn, segs, min_seg_sec, max_seg_sec, err) ==
    [pc |-> "start", fn |-> fn, segs |-> segs, min_seg_sec |-> min_seg_sec,
     max_seg_sec |-> max_seg_sec, err |-> err, prev |-> <<>>, result |-> <<>>, passes |-> 0,
     duration_sec |-> 0, params |-> <<>>, attempt_info |-> [ok |-> FALSE, reason |-> "none"],
     text |-> <<>>, pending_start |-> <<>>, intervals |-> <<>>, speech_mask |-> <<>>]

\* a call of the silence pipeline on a file of duration_sec: the silences
\* are normalized, then complemented
ComplementCalls ==
    {[FnCall("complement", l, 1, 1, e) EXCEPT !.duration_sec = d] :
        l \in SegLists, d \in 0..(MaxDur + 1), e \in FpErr}

\* one candidate of the auto-strategy loop: the segments its detector
\* returned for a file of MaxDur + 1, and the job's parameters
GateParams ==
    [pad_sec : PadChoices, min_seg_sec : {1}, max_seg_sec : {2, MaxDur + 1},
     auto_strategy_min_segments : 1..2, auto_strategy_min_speech_total_sec : {1, 3}]

GateCalls ==
    {[FnCall("quality_gate", l, pr.min_seg_sec, pr.max_seg_sec, e) EXCEPT
         !.duration_sec = MaxDur + 1, !.params = pr] :
        l \in SegLists, pr \in GateParams, e \in FpErr}

\* the lines of a silencedetect log: a line that matches silence_start, a
\* line that matches silence_end and not silence_start, and any other
\* line; the times are counted in thirds of a millisecond
MaxLogLines == 3
LogLines ==
    [kind : {"silence_start", "silence_end"}, t3 : {1, 4, ToSub(MaxDur) + 2}]
        \cup {[kind |-> "other", t3 |-> 0]}
LogTexts == UNION {[1..n -> LogLines] : n \in 0..MaxLogLines}

\* pending_start is <<>> for None
ParseCalls ==
    {[FnCall("parse", <<>>, 1, 1, 0) EXCEPT !.text = t, !.duration_sec = d3] :
        t \in LogTexts, d3 \in {ToSub(MaxDur), ToSub(MaxDur) + 1}}

\* a silence_start that arrives while one is pending is dropped
parse_line_keeps_first_start(line, pending_start, intervals) ==
    IF line.kind = "silence_start"
    THEN [pending_start |-> IF pending_start # <<>> THEN pending_start ELSE <<line.t3>>,
          intervals |-> intervals]
    ELSE IF line.kind = "silence_end" /\ pending_start # <<>>
    THEN [pending_start |-> <<>>,
          intervals |-> Append(intervals, <<Round3(pending_start[1]), Round3(line.t3)>>)]
    ELSE [pending_start |-> pending_start, intervals |-> intervals]

\* the body of the loop over the lines of the log
parse_line(line, pending_start, intervals) ==
    IF line.kind = "silence_start"
    THEN [pending_start |-> <<line.t3>>, intervals |-> intervals]
    ELSE IF line.kind = "silence_end"
    THEN IF pending_start # <<>>
         THEN [pending_start |-> <<>>,
               intervals |-> Append(intervals, <<Round3(pending_start[1]), Round3(line.t3)>>)]
         ELSE [pending_start |-> pending_start, intervals |-> intervals]
    ELSE [pending_start |-> pending_start, intervals |-> intervals]

(***************************************************************************)
(* The morphological cleanup of a frame mask.  Times are counted in hops:  *)
(* frame idx (from 1) starts at idx - 1 and lasts frame_sec.  The energy   *)
(* strategy has frames longer than the hop, the VAD strategy has frames    *)
(* that follow each other (frame idx starts at (idx - 1) * frame_sec).     *)
(***************************************************************************)
MaxFrames == 4

\* the runs of equal values of the mask: (start_idx, end_idx, is_speech)
RECURSIVE MaskRuns(_, _, _)
MaskRuns(speech_mask, i, current_run_start) ==
    IF i > Len(speech_mask)
    THEN <<[start_idx |-> current_run_start, end_idx |-> Len(speech_mask),
            is_speech |-> speech_mask[current_run_start]]>>
    ELSE IF speech_mask[i] # speech_mask[current_run_start]
    THEN <<[start_idx |-> current_run_start, end_idx |-> i - 1,
            is_speech |-> speech_mask[current_run_start]]>>
         \o MaskRuns(speech_mask, i + 1, i)
    ELSE MaskRuns(speech_mask, i + 1, current_run_start)

\* consecutive runs of one kind become one run from the first start_idx
\* to the last end_idx
RECURSIVE MergeRuns(_, _, _)
MergeRuns(filled_runs, i, merged_runs) ==
    IF i > Len(filled_runs) THEN merged_runs
    ELSE IF merged_runs # <<>> /\ filled_runs[i].is_speech = Last(merged_runs).is_speech
    THEN MergeRuns(filled_runs, i + 1,
                   ReplaceLast(merged_runs,
                               [Last(merged_runs) EXCEPT !.end_idx = filled_runs[i].end_idx]))
    ELSE MergeRuns(filled_runs, i + 1, Append(merged_runs, filled_runs[i]))

morphological_postprocess(speech_mask, frame_sec, hop_sec, min_speech_sec, min_silence_sec, duration_sec) ==
    IF speech_mask = <<>> THEN <<>>
    ELSE
      LET run_duration(r) ==
              ((r.end_idx - 1) * hop_sec + frame_sec) - (r.start_idx - 1) * hop_sec
          runs == MaskRuns(speech_mask, 2, 1)
          filtered_runs ==
              SelectSeq(runs, LAMBDA r : ~r.is_speech \/ run_duration(r) >= min_speech_sec)
          filled_runs ==
              [i \in 1..Len(filtered_runs) |->
                  IF ~filtered_runs[i].is_speech /\ run_duration(filtered_runs[i]) < min_silence_sec
                  THEN [filtered_runs[i] EXCEPT !.is_speech = TRUE]
                  ELSE filtered_runs[i]]
          merged_runs == MergeRuns(filled_runs, 1, <<>>)
          seg(r) == <<(r.start_idx - 1) * hop_sec,
                      Min2((r.end_idx - 1) * hop_sec + frame_sec, duration_sec)>>
          speech == SelectSeq(merged_runs, LAMBDA r : r.is_speech /\ seg(r)[2] > seg(r)[1])
      IN  SortByStart([i \in 1..Len(speech) |-> seg(speech[i])])

\* the VAD strategy's copy of the cleanup: frames that follow each other
mask_to_segments(speech_mask, frame_sec, min_speech_sec, min_silence_sec, duration_sec) ==
    morphological_postprocess(speech_mask, frame_sec, frame_sec, min_speech_sec,
                              min_silence_sec, duration_sec)

\* the masks of a file that ends with its last frame; the energy frames
\* last two hops
MaskCalls ==
    {[FnCall(fn, <<>>, 1, 1, 0) EXCEPT
         !.speech_mask = m,
         !.params = [frame_sec |-> IF fn = "energy" THEN 2 ELSE 1,
                     min_speech_sec |-> ms, min_silence_sec |-> mq],
         !.duration_sec = IF m = <<>> THEN 0
                          ELSE (Len(m) - 1) + (IF fn = "energy" THEN 2 ELSE 1)] :
        fn \in {"energy", "vad"},
        m \in UNION {[1..n -> BOOLEAN] : n \in 0..MaxFrames},
        ms \in 1..3, mq \in 1..3}

(***************************************************************************)
(* The flags of a segment and its record.  rms is <<>> for None; the       *)
(* history flags come from the split map and then from the merge map.      *)
(***************************************************************************)
compute_flags_for_segment(segment, duration_sec, rms, low_energy_rms_threshold, history_flags, err) ==
    history_flags
    \o (IF \/ ~FpGE(Abs(segment[1] - 0), 1, err)
           \/ ~FpGE(Abs(segment[2] - duration_sec), 1, err)
        THEN <<"edge_clipped">> ELSE <<>>)
    \o (IF rms # <<>> /\ rms[1] < low_energy_rms_threshold
        THEN <<"low_energy">> ELSE <<>>)

\* one segment of a file of MaxDur whose record the emit loop builds
RecordCalls ==
    {[FnCall("segment_record", <<seg>>, 1, 1, e) EXCEPT
         !.duration_sec = MaxDur,
         !.params = [rms |-> rms, low_energy_rms_threshold |-> 1, history_flags |-> h]] :
        seg \in Intervals, e \in FpErr, rms \in {<<>>, <<0>>, <<2>>},
        h \in {<<>>, <<"split_from_long">>, <<"merged_short">>,
               <<"split_from_long", "merged_short">>}}

InitFn ==
    /\ call \in {FnCall(fn, l, mn, mx, e) :
                 fn \in {"enforce_max", "enforce_min"}, l \in SegLists,
                 mn \in MinSegChoices, mx \in MaxSegChoices, e \in FpErr}
               \cup ComplementCalls \cup GateCalls \cup ParseCalls \cup MaskCalls
               \cup RecordCalls
    /\ call.min_seg_sec <= call.max_seg_sec
    /\ chain = ChainIdle
    /\ world = IdleWorld
    /\ out_dir = EmptyDir
    /\ last = NoCommand
    /\ recordFields = DeclaredRecordFields
    /\ writer = WriterIdle
    /\ run = RunIdle

EnforceMaxCall ==
    /\ call.pc = "start"
    /\ call.fn = "enforce_max"
    /\ call' = [call EXCEPT
                  !.pc = "done",
                  !.result = enforce_max_duration_by_split(call.segs, call.max_seg_sec,
                                                          call.min_seg_sec, call.err)]
    /\ UNCHANGED <<chain, world, out_dir, last, recordFields, writer, run>>

\* one pass of the loop of enforce_min_duration_by_merge; the first pass
\* starts from the sorted input, an empty input returns at once
EnforceMinPass ==
    /\ call.fn = "enforce_min"
    /\ call.pc \in {"start", "loop"}
    /\ IF call.pc = "start" /\ call.segs = <<>>
       THEN call' = [call EXCEPT !.pc = "done"]
       ELSE \E p \in {MinPass(IF call.pc = "start" THEN SortByStart(call.segs) ELSE call.result,
                              1, <<>>, FALSE, call.min_seg_sec, call.err)} :
                call' = [call EXCEPT
                           !.pc = IF p.changed THEN "loop" ELSE "done",
                           !.prev = IF call.pc = "start" THEN SortByStart(call.segs)
                                    ELSE call.result,
                           !.result = p.res,
                           !.passes = @ + 1]
    /\ UNCHANGED <<chain, world, out_dir, last, recordFields, writer, run>>

\* normalized = normalize_intervals(silences, duration);
\* segments = complement_to_speech_segments(normalized, duration)
ComplementCall ==
    /\ call.pc = "start"
    /\ call.fn = "complement"
    /\ \E normalized \in {normalize_intervals(call.segs, call.duration_sec, call.err)} :
          call' = [call EXCEPT
                     !.pc = "done",
                     !.prev = normalized,
                     !.result = complement_to_speech_segments(normalized, call.duration_sec)]
    /\ UNCHANGED <<chain, world, out_dir, last, recordFields, writer, run>>

\* the body of the auto-strategy loop after analyze has returned: the
\* candidate's segments are postprocessed and the gate gives attempt_info
GateCall ==
    /\ call.pc = "start"
    /\ call.fn = "quality_gate"
    /\ \E final_segments \in {postprocess_segments(call.segs, call.duration_sec,
                                                   call.params.pad_sec, call.params.min_seg_sec,
                                                   call.params.max_seg_sec, call.err)} :
          \E reason \in {QualityGate(final_segments, call.duration_sec, call.params)} :
             call' = [call EXCEPT
                        !.pc = "done",
                        !.prev = final_segments,
                        !.attempt_info = [ok |-> reason = "none", reason |-> reason]]
    /\ UNCHANGED <<chain, world, out_dir, last, recordFields, writer, run>>

\* parse_silencedetect_output reads one line of the log; passes counts the
\* lines read
ParseLine ==
    /\ call.fn = "parse"
    /\ call.pc \in {"start", "loop"}
    /\ call.passes < Len(call.text)
    /\ \E r \in {parse_line(call.text[call.passes + 1], call.pending_start, call.intervals)} :
          call' = [call EXCEPT
                     !.pc = "loop",
                     !.passes = @ + 1,
                     !.pending_start = r.pending_start,
                     !.intervals = r.intervals]
    /\ UNCHANGED <<chain, world, out_dir, last, recordFields, writer, run>>

\* after the last line: a pending start is closed at the duration of the
\* file, then the intervals are sorted, clipped and filtered
ParseFinish ==
    /\ call.fn = "parse"
    /\ call.pc \in {"start", "loop"}
    /\ call.passes = Len(call.text)
    /\ \E closed \in {IF call.pending_start # <<>>
                       THEN Append(call.intervals, <<Round3(call.pending_start[1]),
                                                     Round3(call.duration_sec)>>)
                       ELSE call.intervals} :
          call' = [call EXCEPT
                     !.pc = "done",
                     !.intervals = closed,
                     !.result = parse_silencedetect_output(closed, call.duration_sec)]
    /\ UNCHANGED <<chain, world, out_dir, last, recordFields, writer, run>>

\* the cleanup of the mask by the energy strategy or by the VAD strategy
MaskCall ==
    /\ call.pc = "start"
    /\ call.fn \in {"energy", "vad"}
    /\ call' = [call EXCEPT
                  !.pc = "done",
                  !.result =
                      IF call.fn = "energy"
                      THEN morphological_postprocess(call.speech_mask, call.params.frame_sec, 1,
                                                     call.params.min_speech_sec,
                                                     call.params.min_silence_sec,
                                                     call.duration_sec)
                      ELSE mask_to_segments(call.speech_mask, call.params.frame_sec,
                                            call.params.min_speech_sec,
                                            call.params.min_silence_sec, call.duration_sec)]
    /\ UNCHANGED <<chain, world, out_dir, last, recordFields, writer, run>>

\* the emit loop for one segment: the flags are computed, SegmentRecord is
\* called with flags, source and quality, and the record is written; a
\* SegmentRecord that does not declare them raises TypeError
RecordCall ==
    /\ call.pc = "start"
    /\ call.fn = "segment_record"
    /\ \E flags \in {compute_flags_for_segment(call.segs[1], call.duration_sec, call.params.rms,
                                                call.params.low_energy_rms_threshold,
                                                call.params.history_flags, call.err)} :
          IF SegmentRecordInitOk(recordFields)
          THEN call' = [call EXCEPT
                          !.pc = "done",
                          !.result = <<[id |-> FormatSegId(1), start_sec |-> call.segs[1][1],
                                        end_sec |-> call.segs[1][2], flags |-> flags]>>]
          ELSE call' = [call EXCEPT !.pc = "TypeError"]
    /\ UNCHANGED <<chain, world, out_dir, last, recordFields, writer, run>>

NextFn ==
    \/ EnforceMaxCall \/ EnforceMinPass \/ ComplementCall \/ GateCall
    \/ ParseLine \/ ParseFinish \/ MaskCall \/ RecordCall

SpecFn == InitFn /\ [][NextFn]_vars

\* C21: for one input segment longer than max_seg_sec, the result is exactly
\* k = ceil(duration / max_seg_sec) consecutive pieces from its start to its
\* end, of equal length up to rounding.
C21_SplitIntoCeilPieces ==
    /\ call.fn = "enforce_max" /\ call.pc = "done"
    /\ Len(call.segs) = 1
    /\ call.segs[1][2] - call.segs[1][1] > call.max_seg_sec
    => LET d == call.segs[1][2] - call.segs[1][1]
           k == (d + call.max_seg_sec - 1) \div call.max_seg_sec
       IN  /\ Len(call.result) = k
           /\ call.result[1][1] = call.segs[1][1]
           /\ call.result[k][2] = call.segs[1][2]
           /\ \A i \in 1..(k - 1) : call.result[i][2] = call.result[i + 1][1]
           /\ \A i, j \in 1..k :
                  Abs((call.result[i][2] - call.result[i][1])
                      - (call.result[j][2] - call.result[j][1])) <= 1

C23_SmallerGapRightOnTie ==
    /\ call.fn = "enforce_min" /\ call.passes = 1
    /\ Len(call.prev) = 3
    /\ FpGE(call.prev[1][2] - call.prev[1][1], call.min_seg_sec, call.err)
    /\ ~FpGE(call.prev[2][2] - call.prev[2][1], call.min_seg_sec, call.err)
    /\ FpGE(call.prev[3][2] - call.prev[3][1], call.min_seg_sec, call.err)
    => call.result =
           IF call.prev[2][1] - call.prev[1][2] < call.prev[3][1] - call.prev[2][2]
           THEN <<(<<call.prev[1][1], call.prev[2][2]>>), call.prev[3]>>
           ELSE <<call.prev[1], (<<call.prev[2][1], call.prev[3][2]>>)>>

Covered(seg, segs) == \E j \in 1..Len(segs) : segs[j][1] <= seg[1] /\ seg[2] <= segs[j][2]

InSome(k, intervals) == \E j \in 1..Len(intervals) : intervals[j][1] <= k /\ k < intervals[j][2]

\* C25: for the normalized silences of a file, the complement is exactly the
\* maximal uncovered parts of [0, duration] in ascending order: every
\* segment lies in the file and is not empty, consecutive segments are
\* separated by a silence, and every instant of the file is in a silence
\* or in a segment, never in both; no silence gives [(0, duration)] when
\* duration > 0, and silence over the whole file gives no segment.
C25_ComplementIsMaximalGaps ==
    (call.fn = "complement" /\ call.pc = "done") =>
        /\ \A j \in 1..Len(call.result) :
              /\ 0 <= call.result[j][1]
              /\ call.result[j][1] < call.result[j][2]
              /\ call.result[j][2] <= call.duration_sec
        /\ \A j \in 1..(Len(call.result) - 1) : call.result[j][2] < call.result[j + 1][1]
        /\ \A k \in 0..(call.duration_sec - 1) :
              InSome(k, call.result) <=> ~InSome(k, call.prev)
        /\ (call.prev = <<>> /\ call.duration_sec > 0) =>
              call.result = <<(<<0, call.duration_sec>>)>>
        /\ (call.prev = <<(<<0, call.duration_sec>>)>>) => call.result = <<>>

\* C25 witness: two silences inside a file have given the part before the
\* first, the gap between them and the part after the last
C25_Witness ==
    /\ call.fn = "complement"
    /\ call.pc = "done"
    /\ Len(call.prev) = 2
    /\ Len(call.result) = 3
\* C26: a candidate is accepted exactly when its postprocessed segments are
\* at least min_segments in number, last at least min_speech_total_sec in
\* total, and fill less than max_speech_ratio of the file; a candidate that
\* is not accepted has a reason recorded.
C26_AcceptedIffGateHolds ==
    (call.fn = "quality_gate" /\ call.pc = "done") =>
        /\ call.attempt_info.ok <=>
              /\ Len(call.prev) >= call.params.auto_strategy_min_segments
              /\ SumDur(call.prev) >= call.params.auto_strategy_min_speech_total_sec
              /\ 100 * SumDur(call.prev) <
                     DEFAULT_AUTO_STRATEGY_MAX_SPEECH_RATIO * call.duration_sec
        /\ ~call.attempt_info.ok =>
              call.attempt_info.reason \in {"too_few_segments", "too_short_speech", "full_span"}

\* C26 witness: a candidate with two segments whose total is exactly
\* min_speech_total_sec has been accepted
C26_Witness ==
    /\ call.fn = "quality_gate"
    /\ call.pc = "done"
    /\ call.attempt_info.ok
    /\ Len(call.prev) = 2
    /\ SumDur(call.prev) = call.params.auto_strategy_min_speech_total_sec

\* C27: a candidate whose postprocessed segments fill max_speech_ratio of
\* the file or more is rejected with the reason full_span.
C27_FullSpanReason ==
    (/\ call.fn = "quality_gate"
     /\ call.pc = "done"
     /\ 100 * SumDur(call.prev) >= DEFAULT_AUTO_STRATEGY_MAX_SPEECH_RATIO * call.duration_sec)
        => (~call.attempt_info.ok /\ call.attempt_info.reason = "full_span")
\* C28: the parser holds at most one pending silence_start; reading a
\* silence_start makes it the pending one and adds no interval, whatever
\* was pending; reading a silence_end with nothing pending adds no
\* interval; reading any other silence_end adds exactly one interval, from
\* the pending start to that end, and leaves nothing pending.
C28_OnePendingStart ==
    [][(call.fn = "parse" /\ call'.passes = call.passes + 1) =>
         LET line == call.text[call'.passes]
         IN  /\ Len(call'.pending_start) <= 1
             /\ line.kind = "silence_start" =>
                   /\ call'.pending_start = <<line.t3>>
                   /\ call'.intervals = call.intervals
             /\ (line.kind = "silence_end" /\ call.pending_start = <<>>) =>
                   /\ call'.pending_start = <<>>
                   /\ call'.intervals = call.intervals
             /\ (line.kind = "silence_end" /\ call.pending_start # <<>>) =>
                   /\ call'.pending_start = <<>>
                   /\ call'.intervals =
                          Append(call.intervals,
                                 <<Round3(call.pending_start[1]), Round3(line.t3)>>)]_vars

\* C28 witness: a log of two silence_start lines and one silence_end line
\* has been read, and the only interval starts at the second start
C28_Witness ==
    /\ call.fn = "parse"
    /\ call.pc = "done"
    /\ Len(call.text) = 3
    /\ call.text[1].kind = "silence_start"
    /\ call.text[2].kind = "silence_start"
    /\ call.text[3].kind = "silence_end"
    /\ call.text[1].t3 # call.text[2].t3
    /\ call.intervals = <<(<<Round3(call.text[2].t3), Round3(call.text[3].t3)>>)>>
\* C29: every speech run that the cleanup of the energy strategy or of the
\* VAD strategy returns lasts at least min_speech_sec, for every mask and
\* every min_silence_sec.
C29_ExportedRunsLongEnough ==
    (call.fn \in {"energy", "vad"} /\ call.pc = "done") =>
        \A j \in 1..Len(call.result) :
            call.result[j][2] - call.result[j][1] >= call.params.min_speech_sec
\* the flags in their canonical order
FlagOrder == <<"split_from_long", "merged_short", "edge_clipped", "low_energy">>

\* C30: the record of a segment is written with its flags, and the flags
\* are in the order split_from_long, merged_short, edge_clipped,
\* low_energy whatever combination applies.
C30_RecordsCarryFlags ==
    (call.fn = "segment_record" /\ call.pc # "start") =>
        /\ call.pc = "done"
        /\ Len(call.result) = 1
        /\ "flags" \in DOMAIN call.result[1]
        /\ call.result[1].flags =
              SelectSeq(FlagOrder,
                        LAMBDA f : \E j \in 1..Len(call.result[1].flags) :
                                      call.result[1].flags[j] = f)
====
